---- MODULE Spec2Model ----
(***************************************************************************)
(* State-machine model of the domai-app monitors.                          *)
(*                                                                         *)
(*  - TcpdumpMonitor (modules/packet_capture/tcpdump_monitor.py, carried   *)
(*    in IMMEDIATE_ACTION_PLAN.md): an asyncio object.  A coroutine runs   *)
(*    atomically from one await that can suspend to the next, so every     *)
(*    action below is one such segment of start(), stop() or of the        *)
(*    _monitor_output task.                                                *)
(*  - NetworkMonitor (src/core/monitors/NetworkMonitor.ts): start()/stop() *)
(*    hold no await, each is one action.                                   *)
(*  - The permission manager is a collaborator that is not part of the     *)
(*    sources; it is modelled from its interface (check / request /        *)
(*    release of the "packet_capture" capability).                         *)
(***************************************************************************)
EXTENDS Integers, Sequences, FiniteSets, TLC

\* ------------------------------------------------------------------ bounds

\* Number of client coroutines that may call start()/stop() concurrently.
NumCallers == 2

\* Number of subprocesses that exist at a time: a process that has exited and
\* that nothing refers to any more gives its identifier back.
MaxProcs == 2

\* Number of start/stop cycles counted for the caller that runs them alone.
MaxCycles == 3

\* Number of _process_packets tasks that exist at a time.
MaxConsumers == 2

\* Number of callbacks registered for the "packet" event.
NumCallbacks == 2

\* Number of output lines the subprocesses write in a run of the pipeline.
MaxLines == 2

\* Number of times a rendering of the same event at the same tier is counted.
MaxRenders == 2

\* AnalysisEngine.MAX_CONTEXT_EVENTS.
MAX_CONTEXT_EVENTS == 100

\* Number of analyzeSecurityEvent calls.
MaxEvents == 102

\* Number of events, from the first on, whose protocol varies.
MaxVaried == 2

\* Number of analyzeSecurityEvent calls suspended at a time.
MaxInFlight == 2

\* Number of checked boxes of the scan plan.
MaxSelected == 3

\* Number of chunks the response of a scan is read in.
MaxChunks == 2

\* Capacity a bounded stream would have.
StreamCapacity == 4

\* Number of interval timers startCountdown creates.
MaxIntervals == 3

\* Number of calls of executeScans counted.
MaxExecutions == 2

\* Number of packets _notify_callbacks is called with.
MaxPackets == 3

\* The number of packets the page keeps.
KeepLatest == 1000

\* Number of packet_data events.
MaxReceived == 1002

\* Number of packets, from the first on, that may come without an explanation.
MaxOddPackets == 1

\* Number of clicks on the explanation tabs.
MaxClicks == 2

\* ------------------------------------------------------------ identifiers

Callers == 1 .. NumCallers

Procs == 1 .. MaxProcs

\* The _monitor_output task created by the start() that spawned process p.
ReaderOf(p) == NumCallers + p

Readers == {ReaderOf(p) : p \in Procs}

Threads == Callers \cup Readers

StartPcs == {"start_perm", "start_build", "start_spawn"}

StopPcs == {"stop_wait", "stop_release"}

\* The _process_packets tasks, the registered callbacks in registration
\* order, and the output lines numbered in the order they are read.
Consumers == 1 .. MaxConsumers

Callbacks == 1 .. NumCallbacks

Lines == 1 .. MaxLines

VARIABLES
  running,       \* TcpdumpMonitor.running
  process,       \* TcpdumpMonitor.process: 0 is None, else a process id
  procs,         \* every process id: "alive", "terminating" (SIGTERM
                 \* sent), or "gone" (it has exited, or never ran)
  granted,       \* permission manager: "packet_capture" is granted
  pc,            \* where each coroutine is suspended
  call,          \* the locals of each coroutine's call in progress
  last,          \* the client call that returned last: the object, the
                 \* method, the value returned and the message logged
  rproc,         \* the process whose stdout a reader task is blocked on
  cycles,        \* start/stop cycles completed by the driver alone, or -1
  nmIsRunning,   \* NetworkMonitor.isRunning
  pending,       \* whether a process has written a line nobody has read yet
  nread,         \* number of lines read from the subprocesses so far
  queue,         \* TcpdumpMonitor.output_queue: the lines read, oldest first
  cpc,           \* where each _process_packets task is suspended
  cline,         \* the line a _process_packets task is delivering
  ccb,           \* the callback it is awaiting
  maxStarted,    \* per callback, the latest line it was invoked with
  delivered,     \* the lines every callback has been invoked with
  now,           \* datetime.datetime.now()
  raw,           \* the line handed to _parse_packet last
  event,         \* the PacketData _parse_packet returned for it
  stamp,         \* the latest timestamp tcpdump wrote on a line
  tier,          \* the tier get_explanation was called with last
  expl,          \* the text it returned
  renders,       \* how often in a row it was called with this event and tier
  nmEvent,       \* what NetworkMonitor.parseNetworkData produced last
  userProfile,     \* AnalysisEngine.userProfile.expertiseLevel
  contextWindow,   \* AnalysisEngine.contextWindow
  analysing,       \* analyzeSecurityEvent calls suspended in their await
  analysisResult,  \* the call that returned last and its AnalysisResult
  analysed,        \* the number of analyzeSecurityEvent calls made
  scanQueue,       \* executeScans: the selected scans not yet executed
  scanPc,          \* ScanPlanManager: where executeScans stands
  chunksRead,      \* executeScan: chunks read from the response so far
  findings,        \* scan starts and scan results emitted so far
  crisisStream,    \* the entries of the element crisis-stream
  knowledgeStream, \* the entries of the element knowledge-stream
  cmdArgs,         \* the arguments _build_capture_command was called with
  cmd,             \* the command it returned
  checkedBoxes,    \* executeScans: the checked boxes of the scan plan
  started,         \* the scans executeScan was called for, and how each ended
  countdownTime,   \* ScanPlanManager.countdownTime
  isPaused,        \* ScanPlanManager.isPaused
  countdownInterval, \* ScanPlanManager.countdownInterval, 0 when unset
  intervals,       \* the interval timers that are live
  executions,      \* the number of calls of executeScans
  pauseAsked,      \* the user asked for a pause and nothing resumed since
  notifyPacket,    \* _notify_callbacks: the packet it was called with last
  notifyIndex,     \* the callback it awaits, 0 when it is not running
  notifyLog,       \* the callbacks that settled, and how, oldest first
  currentLevel,    \* the page: currentLevel
  packetDisplay,   \* the children of the element packetDisplay, first first
  received,        \* the number of packet_data events received
  clicks           \* the number of clicks on an explanation tab

vars == <<running, process, procs, granted, pc, call, last, rproc, cycles,
          nmIsRunning, pending, nread, queue, cpc, cline, ccb, maxStarted,
          delivered, now, raw, event, stamp, tier, expl, renders, nmEvent,
          userProfile, contextWindow, analysing, analysisResult, analysed,
          scanQueue, scanPc, chunksRead, findings, crisisStream,
          knowledgeStream, cmdArgs, cmd, checkedBoxes, started,
          countdownTime, isPaused, countdownInterval, intervals, executions,
          pauseAsked, notifyPacket, notifyIndex, notifyLog, currentLevel,
          packetDisplay, received, clicks>>

\* The state of both monitors' control operations.
ctlVars == <<running, process, procs, granted, pc, call, last, rproc, cycles,
             nmIsRunning>>

\* The parser's latest input and output and the latest rendering.
parseVars == <<now, raw, event, stamp, tier, expl, renders, nmEvent>>

\* The fields of AnalysisEngine and its calls.
aeVars == <<userProfile, contextWindow, analysing, analysisResult, analysed>>

\* ScanPlanManager.executeScans and the two streams of the page.
streamVars == <<scanQueue, scanPc, chunksRead, findings, crisisStream,
                knowledgeStream, checkedBoxes, started>>

\* A call of _build_capture_command and its result.
cmdVars == <<cmdArgs, cmd>>

\* What the monitor's control operations and its output pipeline leave alone.
\* The countdown of the scan plan, a run of _notify_callbacks, and the
\* packet display of the page.
restVars == <<countdownTime, isPaused, countdownInterval, intervals,
              executions, pauseAsked, notifyPacket, notifyIndex, notifyLog,
              currentLevel, packetDisplay, received, clicks>>

otherVars == <<parseVars, aeVars, streamVars, cmdVars, restVars>>

\* The output pipeline of the TcpdumpMonitor: pipes, queue, processing tasks.
pipeVars == <<pending, nread, queue, cpc, cline, ccb, maxStarted, delivered>>

\* The state of the TcpdumpMonitor object and of its coroutines.
monVars == <<running, process, procs, granted, pc, call, rproc>>

nmVars == <<nmIsRunning>>

\* A process that has been spawned and has not exited.
Live(p) == procs[p] \in {"alive", "terminating"}

\* An identifier is free when its process is gone, its reader
\* task has ended, and neither the handle nor a suspended stop() or reader
\* refers to it.
Free(p) ==
  /\ procs[p] = "gone"
  /\ pc[ReaderOf(p)] = "absent"
  /\ process # p
  /\ \A t \in Threads : pc[t] = "stop_wait" => call[t].target # p
  /\ \A r \in Readers : pc[r] = "read" => rproc[r] # p

\* The identifier create_subprocess_exec gives the next process.
NextProc == CHOOSE p \in Procs : Free(p) /\ \A q \in Procs : Free(q) => p <= q

\* The caller whose start/stop cycles are counted.
Driver == CHOOSE t \in Callers : \A u \in Callers : t <= u

\* The locals of a coroutine that is in no call: the operation, the process
\* stop() called terminate() on, and whether a stop() was called while the
\* call, a start(), was suspended.
NoCall == [op |-> "none", target |-> 0, stopDuring |-> FALSE]

\* No call has returned yet.
NoResult == [obj |-> "none", op |-> "none", res |-> "none", log |-> "none"]

\* The coroutine's position once its call has returned: a caller is free to
\* call again, a task that called stop() from its except clause ends.
Returned(t) == IF t \in Callers THEN "idle" ELSE "absent"

\* What is observed of a call that returned res after logging msg: the client
\* holds the value; nothing holds the result of a task that has ended.
Result(t, op, res, msg) ==
  IF t \in Callers
  THEN [obj |-> "TcpdumpMonitor", op |-> op, res |-> res, log |-> msg]
  ELSE last

\* ------------------------------------------------------------------ text
\* A Python str is the sequence of its characters.

Digits == <<"0", "1", "2", "3", "4", "5", "6", "7", "8", "9">>

\* The value of a decimal digit.
DigitVal(ch) == (CHOOSE i \in 1 .. Len(Digits) : Digits[i] = ch) - 1

\* str.isdigit(): not empty and decimal digits only.
IsDigitStr(s) ==
  /\ s # <<>>
  /\ \A i \in 1 .. Len(s) : \E k \in 1 .. Len(Digits) : Digits[k] = s[i]

\* The number a string of digits denotes.
RECURSIVE DigitsValue(_)
DigitsValue(s) ==
  IF s = <<>> THEN 0
  ELSE 10 * DigitsValue(SubSeq(s, 1, Len(s) - 1)) + DigitVal(s[Len(s)])

\* int(s) succeeds on an optional sign followed by digits.
IsIntStr(s) ==
  /\ s # <<>>
  /\ IsDigitStr(IF s[1] \in {"+", "-"} THEN Tail(s) ELSE s)

\* int(s).
IntValue(s) ==
  IF s[1] = "-" THEN 0 - DigitsValue(Tail(s))
  ELSE IF s[1] = "+" THEN DigitsValue(Tail(s))
  ELSE DigitsValue(s)

\* str(n) for an int n.
IntStr(n) ==
  LET RECURSIVE NatStr(_)
      NatStr(k) ==
        IF k < 10 THEN <<Digits[k + 1]>>
        ELSE Append(NatStr(k \div 10), Digits[(k % 10) + 1])
  IN IF n < 0 THEN <<"-">> \o NatStr(0 - n) ELSE NatStr(n)

\* sub occurs in s at position i.
OccursAt(s, sub, i) ==
  /\ i + Len(sub) - 1 <= Len(s)
  /\ \A j \in 1 .. Len(sub) : s[i + j - 1] = sub[j]

\* "sub in s".
Contains(s, sub) == \E i \in 1 .. Len(s) + 1 : OccursAt(s, sub, i)

\* s.split(sep) for a non-empty separator: empty pieces are kept.
RECURSIVE SplitOn(_, _)
SplitOn(s, sep) ==
  IF ~Contains(s, sep) THEN <<s>>
  ELSE LET at == CHOOSE i \in 1 .. Len(s) + 1 :
                   /\ OccursAt(s, sep, i)
                   /\ \A j \in 1 .. i - 1 : ~OccursAt(s, sep, j)
       IN <<SubSeq(s, 1, at - 1)>>
            \o SplitOn(SubSeq(s, at + Len(sep), Len(s)), sep)

\* s.split(): pieces separated by runs of white space, no empty piece.
Split(s) ==
  LET IsSpace(ch) == ch \in {" ", "\t"}
      \* The first position at or after i that holds white space (want) or
      \* none (~want); Len(s) + 1 when there is none.
      RECURSIVE Scan(_, _)
      Scan(i, want) ==
        IF i > Len(s) \/ IsSpace(s[i]) = want THEN i ELSE Scan(i + 1, want)
      RECURSIVE SplitFrom(_)
      SplitFrom(i) ==
        IF Scan(i, FALSE) > Len(s) THEN <<>>
        ELSE <<SubSeq(s, Scan(i, FALSE), Scan(Scan(i, FALSE), TRUE) - 1)>>
               \o SplitFrom(Scan(Scan(i, FALSE), TRUE))
  IN SplitFrom(1)

\* sep.join(pieces).
RECURSIVE Join(_, _)
Join(pieces, sep) ==
  IF pieces = <<>> THEN <<>>
  ELSE IF Len(pieces) = 1 THEN pieces[1]
  ELSE pieces[1] \o sep \o Join(Tail(pieces), sep)

\* pieces[:-1].
ButLast(pieces) == SubSeq(pieces, 1, Len(pieces) - 1)

\* pieces[-1].
Last(pieces) == pieces[Len(pieces)]

\* str.lower().
Lower(s) ==
  LET upper ==
        <<"A", "B", "C", "D", "E", "F", "G", "H", "I", "J", "K", "L", "M",
          "N", "O", "P", "Q", "R", "S", "T", "U", "V", "W", "X", "Y", "Z">>
      lower ==
        <<"a", "b", "c", "d", "e", "f", "g", "h", "i", "j", "k", "l", "m",
          "n", "o", "p", "q", "r", "s", "t", "u", "v", "w", "x", "y", "z">>
  IN [i \in 1 .. Len(s) |->
        IF \E j \in 1 .. Len(upper) : upper[j] = s[i]
        THEN lower[CHOOSE j \in 1 .. Len(upper) : upper[j] = s[i]]
        ELSE s[i]]

\* ---------------------------------------------------------------- literals

\* The string literals of the code, and the phrase of the novice tier.
Text ==
  [TCP |->
     <<"T", "C", "P">>,
   UNKNOWN |->
     <<"U", "N", "K", "N", "O", "W", "N">>,
   FlagsOpen |->
     <<"F", "l", "a", "g", "s", " ", "[">>,
   FlagsSyn |->
     <<"F", "l", "a", "g", "s", " ", "[", "S", "]">>,
   NoneStr |->
     <<"N", "o", "n", "e">>,
   SecureWebTo |->
     <<"S", "e", "c", "u", "r", "e", " ", "w", "e", "b", " ", "c", "o", "n",
       "n", "e", "c", "t", "i", "o", "n", " ", "t", "o", " ">>,
   WebTo |->
     <<"W", "e", "b", " ", "c", "o", "n", "n", "e", "c", "t", "i", "o", "n",
       " ", "t", "o", " ">>,
   NetworkTo |->
     <<"N", "e", "t", "w", "o", "r", "k", " ", "c", "o", "n", "n", "e", "c",
       "t", "i", "o", "n", " ", "t", "o", " ">>,
   ConnectionFrom |->
     <<" ", "c", "o", "n", "n", "e", "c", "t", "i", "o", "n", " ", "f", "r",
       "o", "m", " ">>,
   To |->
     <<" ", "t", "o", " ">>,
   FlagsLabel |->
     <<" ", "(", "F", "l", "a", "g", "s", ":", " ">>,
   SecureWeb |->
     <<"s", "e", "c", "u", "r", "e", " ", "w", "e", "b", " ", "c", "o", "n",
       "n", "e", "c", "t", "i", "o", "n">>]

\* The keys of the flags dict of _parse_tcp_flags, each with its text.
FlagNames ==
  [SYN |->
     <<"S", "Y", "N">>,
   ACK |->
     <<"A", "C", "K">>,
   PSH |->
     <<"P", "S", "H">>,
   RST |->
     <<"R", "S", "T">>,
   FIN |->
     <<"F", "I", "N">>,
   URG |->
     <<"U", "R", "G">>]

\* The keys in the order of the dict.
FlagOrder == <<"SYN", "ACK", "PSH", "RST", "FIN", "URG">>

\* ------------------------------------------------------------- input lines

\* Lines of output, well-formed and malformed.
Line ==
  [\* the synthetic line, the destination followed by a colon: "2024-01-01 10:00:00.000000 TCP 10.0.0.5.443 > 10.0.0.9.51000: Flags [S]"
   Syn |->
     <<"2", "0", "2", "4", "-", "0", "1", "-", "0", "1", " ", "1", "0", ":",
       "0", "0", ":", "0", "0", ".", "0", "0", "0", "0", "0", "0", " ", "T",
       "C", "P", " ", "1", "0", ".", "0", ".", "0", ".", "5", ".", "4", "4",
       "3", " ", ">", " ", "1", "0", ".", "0", ".", "0", ".", "9", ".", "5",
       "1", "0", "0", "0", ":", " ", "F", "l", "a", "g", "s", " ", "[", "S",
       "]">>,
   \* the same without the colon: "2024-01-01 10:00:00.000000 TCP 10.0.0.5.443 > 10.0.0.9.51000 Flags [S]"
   SynNoColon |->
     <<"2", "0", "2", "4", "-", "0", "1", "-", "0", "1", " ", "1", "0", ":",
       "0", "0", ":", "0", "0", ".", "0", "0", "0", "0", "0", "0", " ", "T",
       "C", "P", " ", "1", "0", ".", "0", ".", "0", ".", "5", ".", "4", "4",
       "3", " ", ">", " ", "1", "0", ".", "0", ".", "0", ".", "9", ".", "5",
       "1", "0", "0", "0", " ", "F", "l", "a", "g", "s", " ", "[", "S", "]">>,
   \* to port 443, flags by name, a length: "2024-01-01 10:00:01.000000 TCP 10.0.0.9.51000 > 10.0.0.5.443 Flags [SYN,ACK] 60"
   ToHttps |->
     <<"2", "0", "2", "4", "-", "0", "1", "-", "0", "1", " ", "1", "0", ":",
       "0", "0", ":", "0", "1", ".", "0", "0", "0", "0", "0", "0", " ", "T",
       "C", "P", " ", "1", "0", ".", "0", ".", "0", ".", "9", ".", "5", "1",
       "0", "0", "0", " ", ">", " ", "1", "0", ".", "0", ".", "0", ".", "5",
       ".", "4", "4", "3", " ", "F", "l", "a", "g", "s", " ", "[", "S", "Y",
       "N", ",", "A", "C", "K", "]", " ", "6", "0">>,
   \* not TCP, to port 80: "2024-01-01 10:00:01.000000 UDP 10.0.0.9.5353 > 10.0.0.5.80 length 64"
   Udp |->
     <<"2", "0", "2", "4", "-", "0", "1", "-", "0", "1", " ", "1", "0", ":",
       "0", "0", ":", "0", "1", ".", "0", "0", "0", "0", "0", "0", " ", "U",
       "D", "P", " ", "1", "0", ".", "0", ".", "0", ".", "9", ".", "5", "3",
       "5", "3", " ", ">", " ", "1", "0", ".", "0", ".", "0", ".", "5", ".",
       "8", "0", " ", "l", "e", "n", "g", "t", "h", " ", "6", "4">>,
   \* runs of white space, a short fraction: "  2024-01-01   10:00:02.5 TCP 10.0.0.9.51000 >  10.0.0.5.22 Flags [P.] 12"
   Spaced |->
     <<" ", " ", "2", "0", "2", "4", "-", "0", "1", "-", "0", "1", " ", " ",
       " ", "1", "0", ":", "0", "0", ":", "0", "2", ".", "5", " ", "T", "C",
       "P", " ", "1", "0", ".", "0", ".", "0", ".", "9", ".", "5", "1", "0",
       "0", "0", " ", ">", " ", " ", "1", "0", ".", "0", ".", "0", ".", "5",
       ".", "2", "2", " ", "F", "l", "a", "g", "s", " ", "[", "P", ".", "]",
       " ", "1", "2">>,
   \* as tcpdump -tttt prints it: "2024-01-01 10:00:00.000000 IP 10.0.0.5.443 > 10.0.0.9.51000: Flags [S], seq 1, length 0"
   Tcpdump |->
     <<"2", "0", "2", "4", "-", "0", "1", "-", "0", "1", " ", "1", "0", ":",
       "0", "0", ":", "0", "0", ".", "0", "0", "0", "0", "0", "0", " ", "I",
       "P", " ", "1", "0", ".", "0", ".", "0", ".", "5", ".", "4", "4", "3",
       " ", ">", " ", "1", "0", ".", "0", ".", "0", ".", "9", ".", "5", "1",
       "0", "0", "0", ":", " ", "F", "l", "a", "g", "s", " ", "[", "S", "]",
       ",", " ", "s", "e", "q", " ", "1", ",", " ", "l", "e", "n", "g", "t",
       "h", " ", "0">>,
   \* too few tokens, no timestamp: "tcpdump: listening on any"
   Garbage |->
     <<"t", "c", "p", "d", "u", "m", "p", ":", " ", "l", "i", "s", "t", "e",
       "n", "i", "n", "g", " ", "o", "n", " ", "a", "n", "y">>,
   \* the empty line: ""
   Empty |->
     <<>>,
   \* a bad timestamp: "2024-13-01 10:00:00.000000 TCP 10.0.0.5.443 > 10.0.0.9.51000 Flags [S]"
   BadMonth |->
     <<"2", "0", "2", "4", "-", "1", "3", "-", "0", "1", " ", "1", "0", ":",
       "0", "0", ":", "0", "0", ".", "0", "0", "0", "0", "0", "0", " ", "T",
       "C", "P", " ", "1", "0", ".", "0", ".", "0", ".", "5", ".", "4", "4",
       "3", " ", ">", " ", "1", "0", ".", "0", ".", "0", ".", "9", ".", "5",
       "1", "0", "0", "0", " ", "F", "l", "a", "g", "s", " ", "[", "S", "]">>,
   \* a port that is not a number: "2024-01-01 10:00:00.000000 TCP 10.0.0.5.https > 10.0.0.9.51000 Flags [S]"
   BadPort |->
     <<"2", "0", "2", "4", "-", "0", "1", "-", "0", "1", " ", "1", "0", ":",
       "0", "0", ":", "0", "0", ".", "0", "0", "0", "0", "0", "0", " ", "T",
       "C", "P", " ", "1", "0", ".", "0", ".", "0", ".", "5", ".", "h", "t",
       "t", "p", "s", " ", ">", " ", "1", "0", ".", "0", ".", "0", ".", "9",
       ".", "5", "1", "0", "0", "0", " ", "F", "l", "a", "g", "s", " ", "[",
       "S", "]">>]

InputLines == {Line[k] : k \in DOMAIN Line}

\* -------------------------------------------------------------- PacketData

\* An Optional value: None, or the value.
None == <<>>

Some(x) == <<x>>

\* ExplanationTier.
Tiers == {"raw", "novice", "apprentice", "guardian", "sentinel"}

\* -------------------------------------------- TcpdumpMonitor._parse_packet

\* A field of one or two digits whose value lies in lo .. hi.
FieldOk(s, lo, hi) ==
  /\ IsDigitStr(s)
  /\ Len(s) <= 2
  /\ DigitsValue(s) >= lo
  /\ DigitsValue(s) <= hi

\* "%Y-%m-%d" matches the date token.
DateOk(d) ==
  LET f == SplitOn(d, <<"-">>)
      IsLeap(y) == (y % 4 = 0 /\ y % 100 # 0) \/ y % 400 = 0
      DaysIn(y, m) ==
        IF m = 2 THEN (IF IsLeap(y) THEN 29 ELSE 28)
        ELSE IF m \in {4, 6, 9, 11} THEN 30 ELSE 31
  IN /\ Len(f) = 3
     /\ IsDigitStr(f[1]) /\ Len(f[1]) = 4 /\ DigitsValue(f[1]) >= 1
     /\ FieldOk(f[2], 1, 12)
     /\ FieldOk(f[3], 1, 31)
     /\ DigitsValue(f[3]) <= DaysIn(DigitsValue(f[1]), DigitsValue(f[2]))

\* "%H:%M:%S.%f" matches the time token.
TimeOk(t) ==
  LET f == SplitOn(t, <<":">>) IN
    /\ Len(f) = 3
    /\ FieldOk(f[1], 0, 23)
    /\ FieldOk(f[2], 0, 59)
    /\ LET s == SplitOn(f[3], <<".">>) IN
         /\ Len(s) = 2
         /\ FieldOk(s[1], 0, 59)
         /\ IsDigitStr(s[2]) /\ Len(s[2]) <= 6

\* datetime.strptime(f"{d} {t}", "%Y-%m-%d %H:%M:%S.%f") as the tuple
\* <<year, month, day, hour, minute, second, microsecond>>; "%f" denotes the
\* digits padded with zeros to six.
Strptime(d, t) ==
  LET df == SplitOn(d, <<"-">>)
      tf == SplitOn(t, <<":">>)
      sf == SplitOn(tf[3], <<".">>)
      RECURSIVE Micro(_)
      Micro(f) == IF Len(f) >= 6 THEN DigitsValue(f) ELSE Micro(Append(f, "0"))
  IN <<DigitsValue(df[1]), DigitsValue(df[2]), DigitsValue(df[3]),
       DigitsValue(tf[1]), DigitsValue(tf[2]), DigitsValue(sf[1]),
       Micro(sf[2])>>

\* a <= b for two datetimes.
TsLeq(a, b) ==
  \/ a = b
  \/ \E i \in 1 .. Len(a) :
       /\ a[i] < b[i]
       /\ \A j \in 1 .. i - 1 : a[j] = b[j]

\* _parse_tcp_flags: every flag is False unless its name occurs in the text
\* between "Flags [" and the next "]".
ParseTcpFlags(raw_output) ==
  IF Contains(raw_output, Text.FlagsOpen)
  THEN LET flag_section ==
             SplitOn(SplitOn(raw_output, Text.FlagsOpen)[2], <<"]">>)[1]
       IN [flag \in DOMAIN FlagNames |->
             Contains(flag_section, FlagNames[flag])]
  ELSE [flag \in DOMAIN FlagNames |-> FALSE]

\* The exception the try block of _parse_packet raises on raw_output, "none"
\* when it raises nothing: IndexError for a missing token, ValueError from
\* strptime or from int().
ParseError(raw_output) ==
  LET parts == Split(raw_output) IN
    IF Len(parts) < 2 THEN "IndexError"
    ELSE IF ~(DateOk(parts[1]) /\ TimeOk(parts[2])) THEN "ValueError"
    ELSE IF Len(parts) < 6 THEN "IndexError"
    ELSE IF ~IsIntStr(Last(SplitOn(parts[4], <<".">>))) THEN "ValueError"
    ELSE IF ~IsIntStr(Last(SplitOn(parts[6], <<".">>))) THEN "ValueError"
    ELSE "none"

\* The PacketData the try block returns.
ParsedPacket(raw_output) ==
  LET parts == Split(raw_output)
      src == SplitOn(parts[4], <<".">>)
      dst == SplitOn(parts[6], <<".">>)
  IN [timestamp |-> Strptime(parts[1], parts[2]),
      raw_output |-> raw_output,
      protocol |-> parts[3],
      src_ip |-> Join(ButLast(src), <<".">>),
      dst_ip |-> Join(ButLast(dst), <<".">>),
      src_port |-> Some(IntValue(Last(src))),
      dst_port |-> Some(IntValue(Last(dst))),
      length |-> IF IsDigitStr(Last(parts))
                 THEN Some(DigitsValue(Last(parts))) ELSE None,
      flags |-> IF parts[3] = Text.TCP
                THEN Some(ParseTcpFlags(raw_output)) ELSE None,
      metadata |-> Some(<<>>),
      threats |-> Some(<<>>),
      context |-> Some(<<>>)]

\* The PacketData the except clause returns at time now.
FallbackPacket(raw_output, now_) ==
  [timestamp |-> now_,
   raw_output |-> raw_output,
   protocol |-> Text.UNKNOWN,
   src_ip |-> <<>>,
   dst_ip |-> <<>>,
   src_port |-> None,
   dst_port |-> None,
   length |-> None,
   flags |-> None,
   metadata |-> None,
   threats |-> None,
   context |-> None]

\* _parse_packet(raw_output) called at time now.
ParsePacket(raw_output, now_) ==
  IF ParseError(raw_output) = "none" THEN ParsedPacket(raw_output)
  ELSE FallbackPacket(raw_output, now_)

\* ------------------------------------------ TcpdumpMonitor.get_explanation

\* str(port) for an Optional[int].
PortStr(port) == IF port = None THEN Text.NoneStr ELSE IntStr(port[1])

\* Mutant of GetNoviceExplanation: the source port is tested.
GetNoviceExplanationBySource(packet) ==
  IF packet.src_port = Some(443) THEN Text.SecureWebTo \o packet.dst_ip
  ELSE IF packet.src_port = Some(80) THEN Text.WebTo \o packet.dst_ip
  ELSE Text.NetworkTo \o packet.dst_ip

\* _get_novice_explanation.
GetNoviceExplanation(packet) ==
  IF packet.dst_port = Some(443) THEN Text.SecureWebTo \o packet.dst_ip
  ELSE IF packet.dst_port = Some(80) THEN Text.WebTo \o packet.dst_ip
  ELSE Text.NetworkTo \o packet.dst_ip

\* _get_apprentice_explanation.
GetApprenticeExplanation(packet) ==
  LET explanation ==
        packet.protocol \o Text.ConnectionFrom \o packet.src_ip \o <<":">>
          \o PortStr(packet.src_port) \o Text.To \o packet.dst_ip \o <<":">>
          \o PortStr(packet.dst_port)
      set == IF packet.flags = None THEN <<>>
             ELSE SelectSeq(FlagOrder, LAMBDA flag : packet.flags[1][flag])
      flags_str == Join([i \in 1 .. Len(set) |-> FlagNames[set[i]]],
                        <<",", " ">>)
  IN IF flags_str # <<>>
     THEN explanation \o Text.FlagsLabel \o flags_str \o <<")">>
     ELSE explanation

\* _get_guardian_explanation.
GetGuardianExplanation(packet) ==
  packet.raw_output \o <<"\n">> \o GetApprenticeExplanation(packet)

\* Mutant of GetExplanation: the apprentice text is put together with "+",
\* which raises TypeError on a port that is None, and nothing catches it.
GetExplanationRaises(packet, tier_) ==
  IF tier_ = "raw" THEN packet.raw_output
  ELSE IF tier_ = "novice" THEN GetNoviceExplanation(packet)
  ELSE IF tier_ = "apprentice"
  THEN (IF packet.src_port = None \/ packet.dst_port = None
        THEN [exception |-> "TypeError"]
        ELSE GetApprenticeExplanation(packet))
  ELSE IF tier_ = "guardian" THEN GetGuardianExplanation(packet)
  ELSE packet.raw_output

\* Mutant of GetExplanation: the RAW tier falls through to the novice text.
GetExplanationNoRaw(packet, tier_) ==
  IF tier_ \in {"raw", "novice"} THEN GetNoviceExplanation(packet)
  ELSE IF tier_ = "apprentice" THEN GetApprenticeExplanation(packet)
  ELSE IF tier_ = "guardian" THEN GetGuardianExplanation(packet)
  ELSE packet.raw_output

\* get_explanation(packet, tier).
GetExplanation(packet, tier_) ==
  IF tier_ = "raw" THEN packet.raw_output
  ELSE IF tier_ = "novice" THEN GetNoviceExplanation(packet)
  ELSE IF tier_ = "apprentice" THEN GetApprenticeExplanation(packet)
  ELSE IF tier_ = "guardian" THEN GetGuardianExplanation(packet)
  ELSE packet.raw_output

\* ------------------------------------------------ parsing and rendering

\* The times the clock shows.
Clock ==
  {<<2024, 1, 1, 10, 0, 0, 0>>, <<2024, 1, 1, 10, 0, 1, 0>>,
   <<2024, 1, 1, 10, 0, 3, 0>>}

\* Before the first line.
Epoch == <<1, 1, 1, 0, 0, 0, 0>>

\* No line has been parsed yet.
NoEvent == [protocol |-> <<>>]

\* ExpertiseLevel of UserProfile.
ExpertiseLevel == {"beginner", "intermediate", "advanced", "expert"}

\* ---------------------------------------------------------- initial state

Init ==
  /\ running = FALSE
  /\ process = 0
  /\ procs = [p \in Procs |-> "gone"]
  /\ granted = FALSE
  /\ pc = [t \in Threads |-> IF t \in Callers THEN "idle" ELSE "absent"]
  /\ call = [t \in Threads |-> NoCall]
  /\ last = NoResult
  /\ rproc = [r \in Readers |-> 0]
  /\ cycles = 0
  /\ nmIsRunning = FALSE
  /\ pending = [p \in Procs |-> FALSE]
  /\ nread = 0
  /\ queue = <<>>
  /\ cpc = [c \in Consumers |-> "absent"]
  /\ cline = [c \in Consumers |-> 0]
  /\ ccb = [c \in Consumers |-> 0]
  /\ maxStarted = [k \in Callbacks |-> 0]
  /\ delivered = {}
  /\ now = CHOOSE t \in Clock : \A u \in Clock : TsLeq(t, u)
  /\ raw = <<>>
  /\ event = NoEvent
  /\ stamp = Epoch
  /\ tier = "none"
  /\ expl = <<>>
  /\ renders = 0
  /\ nmEvent = NoEvent
  /\ userProfile = "none"
  /\ contextWindow = <<>>
  /\ analysing = <<>>
  /\ analysisResult = None
  /\ analysed = 0
  /\ scanQueue = <<>>
  /\ scanPc = "countdown"
  /\ chunksRead = 0
  /\ findings = 0
  /\ crisisStream = <<>>
  /\ knowledgeStream = <<>>
  /\ cmdArgs = None
  /\ cmd = None
  /\ checkedBoxes = <<>>
  /\ started = <<>>
  /\ countdownTime = 5
  /\ isPaused = FALSE
  /\ countdownInterval = 0
  /\ intervals = {}
  /\ executions = 0
  /\ pauseAsked = FALSE
  /\ notifyPacket = 0
  /\ notifyIndex = 0
  /\ notifyLog = <<>>
  /\ currentLevel = "novice"
  /\ packetDisplay = <<>>
  /\ received = 0
  /\ clicks = 0

\* --------------------------------------------------- collaborators, helpers

\* _find_tcpdump: whether one of the three common paths exists, as the file
\* system answers at the time of the lookup.
FindTcpdump == BOOLEAN

\* permission_manager.check_permission / request_permission as initialize()
\* uses them: TRUE when the capability is already granted, else whatever the
\* request answers.
PermissionAnswers == IF granted THEN {TRUE} ELSE BOOLEAN

\* permission_manager.release_permission("packet_capture").
ReleasePermission == granted' = FALSE

\* Process.terminate(): asyncio raises ProcessLookupError once the process has
\* exited and its transport is closed; before that the call succeeds.
TerminateOutcomes(p) == IF procs[p] = "gone" THEN {"ok", "raise"} ELSE {"ok"}

\* Process.kill() on self.process: AttributeError when the handle is None,
\* ProcessLookupError possible when the process has exited.
KillOutcomes(p) ==
  IF p = 0 THEN {"raise"}
  ELSE IF procs[p] = "gone" THEN {"ok", "raise"} ELSE {"ok"}

\* The locals with those of coroutine t replaced by rec.
WithCall(t, rec) == [call EXCEPT ![t] = rec]

\* The cycle counter after caller t has called op: it counts only while the
\* driver alone alternates start() and stop(), and is -1 ever after.
Entered(t, op) ==
  IF cycles = -1 \/ t \notin Callers THEN cycles
  ELSE IF t # Driver THEN -1
  ELSE IF op = "start"
       THEN IF last.op # "start" /\ cycles < MaxCycles THEN cycles ELSE -1
       ELSE IF last.op = "start" THEN cycles ELSE -1

\* The cycle counter, from value c, after t's call of op has returned res:
\* a start() that returned True followed by a stop() is one cycle.
Counted(c, t, op, res) ==
  IF c = -1 \/ t \notin Callers THEN c
  ELSE IF op = "start" THEN IF res = "True" THEN c ELSE -1
  ELSE c + 1

\* A call of t returns res after logging msg.
Return(t, op, res, msg) ==
  /\ pc' = [pc EXCEPT ![t] = Returned(t)]
  /\ last' = Result(t, op, res, msg)

\* ------------------------------------------------------ TcpdumpMonitor.start

\* Mutant of StartAlreadyRunning: the guard is forgotten for the handle, which
\* a second start() resets before it returns True.
StartAlreadyRunningResets(t) ==
  /\ Return(t, "start", "True", "none")
  /\ process' = 0
  /\ cycles' = Counted(Entered(t, "start"), t, "start", "True")
  /\ UNCHANGED <<running, procs, granted, call>>

\* "if self.running: return True": nothing else is touched.
StartAlreadyRunning(t) ==
  /\ Return(t, "start", "True", "none")
  /\ cycles' = Counted(Entered(t, "start"), t, "start", "True")
  /\ UNCHANGED <<running, process, procs, granted, call>>

\* initialize(): no tcpdump binary: logs "tcpdump not found in system" and
\* returns False, so start() returns False.
StartNoBinary(t) ==
  /\ Return(t, "start", "False", "not_found")
  /\ cycles' = Counted(Entered(t, "start"), t, "start", "False")
  /\ UNCHANGED <<running, process, procs, granted, call>>

\* initialize(): binary found, start() suspends on the permission manager.
StartAwaitPermission(t) ==
  /\ call' = WithCall(t, [NoCall EXCEPT !.op = "start"])
  /\ pc' = [pc EXCEPT ![t] = "start_perm"]
  /\ cycles' = Entered(t, "start")
  /\ UNCHANGED <<running, process, procs, granted, last>>

\* start() from its entry to its first suspension.
StartEnter(t) ==
  /\ t \in Callers
  /\ pc[t] = "idle"
  /\ \E found \in FindTcpdump :
       IF running THEN StartAlreadyRunning(t)
       ELSE IF ~found THEN StartNoBinary(t)
       ELSE StartAwaitPermission(t)
  /\ UNCHANGED <<rproc, nmVars>>

\* The permission was refused: initialize() logs "Failed to get packet capture
\* permission" and returns False, so start() returns False.
StartPermissionDenied(t) ==
  /\ Return(t, "start", "False", "perm_denied")
  /\ call' = WithCall(t, NoCall)
  /\ cycles' = Counted(cycles, t, "start", "False")
  /\ UNCHANGED granted

\* The permission is held; _build_capture_command looks the binary up again
\* and suspends in get_command_wrapper.
StartPermissionGranted(t) ==
  /\ granted' = TRUE
  /\ pc' = [pc EXCEPT ![t] = "start_build"]
  /\ UNCHANGED <<call, last, cycles>>

\* The permission is held but the binary is gone: _build_capture_command
\* returns None and start() returns False.
StartNoCommand(t) ==
  /\ granted' = TRUE
  /\ Return(t, "start", "False", "none")
  /\ call' = WithCall(t, NoCall)
  /\ cycles' = Counted(cycles, t, "start", "False")

\* start() resumed with the permission manager's answer.
StartPerm(t) ==
  /\ pc[t] = "start_perm"
  /\ \E ok \in PermissionAnswers, found \in FindTcpdump :
       IF ~ok THEN StartPermissionDenied(t)
       ELSE IF found THEN StartPermissionGranted(t)
       ELSE StartNoCommand(t)
  /\ UNCHANGED <<running, process, procs, rproc, nmVars>>

\* get_command_wrapper raised: _build_capture_command logs "Error building
\* command" and returns None, so start() returns False.
StartBuildFailed(t) ==
  /\ Return(t, "start", "False", "build_error")
  /\ call' = WithCall(t, NoCall)
  /\ cycles' = Counted(cycles, t, "start", "False")
  /\ UNCHANGED granted

\* The command is built and start() suspends in create_subprocess_exec.
StartBuilt(t) ==
  /\ pc' = [pc EXCEPT ![t] = "start_spawn"]
  /\ UNCHANGED <<call, last, cycles, granted>>

\* _build_capture_command resumed from get_command_wrapper.
StartBuild(t) ==
  /\ pc[t] = "start_build"
  /\ \E wrapper \in {"ok", "raise"} :
       IF wrapper = "ok" THEN StartBuilt(t) ELSE StartBuildFailed(t)
  /\ UNCHANGED <<running, process, procs, rproc, nmVars>>

\* create_subprocess_exec returned process p: the handle is assigned, running
\* is set, the reader task is created, start() returns True.
StartSpawned(t, p) ==
  /\ procs' = [procs EXCEPT ![p] = "alive"]
  /\ process' = p
  /\ running' = TRUE
  /\ pc' = [pc EXCEPT ![t] = Returned(t), ![ReaderOf(p)] = "new"]
  /\ last' = Result(t, "start", "True", "started")
  /\ call' = WithCall(t, NoCall)
  /\ cycles' = Counted(cycles, t, "start", "True")
  /\ UNCHANGED granted

\* create_subprocess_exec raised: "except Exception" logs "Failed to start
\* capture" and start() returns False.
StartSpawnFailed(t) ==
  /\ Return(t, "start", "False", "spawn_error")
  /\ call' = WithCall(t, NoCall)
  /\ cycles' = Counted(cycles, t, "start", "False")
  /\ UNCHANGED <<running, process, procs, granted>>

\* start() resumed from create_subprocess_exec.
StartSpawn(t) ==
  /\ pc[t] = "start_spawn"
  /\ \/ /\ \E p \in Procs : Free(p)
        /\ StartSpawned(t, NextProc)
     \/ StartSpawnFailed(t)
  /\ UNCHANGED <<rproc, nmVars>>

\* ------------------------------------------------------- TcpdumpMonitor.stop

\* A stop() call is noted in the locals of every start() suspended meanwhile.
MarkStops(c) ==
  [u \in Threads |->
     IF pc[u] \in StartPcs THEN [c[u] EXCEPT !.stopDuring = TRUE] ELSE c[u]]

\* "if not self.running: return".
StopNotRunning(t) ==
  /\ Return(t, "stop", "None", "none")
  /\ call' = MarkStops(WithCall(t, NoCall))
  /\ cycles' = Counted(Entered(t, "stop"), t, "stop", "None")
  /\ UNCHANGED <<running, process, procs>>

\* running with no process handle: straight to release_permission.
StopNoProcess(t) ==
  /\ running' = FALSE
  /\ call' = MarkStops(WithCall(t, [NoCall EXCEPT !.op = "stop"]))
  /\ pc' = [pc EXCEPT ![t] = "stop_release"]
  /\ cycles' = Entered(t, "stop")
  /\ UNCHANGED <<process, procs, last>>

\* Mutant of StopTerminate: stop() waits without having called terminate().
StopTerminateNoSignal(t) ==
  /\ running' = FALSE
  /\ call' = MarkStops(WithCall(t, [NoCall EXCEPT !.op = "stop",
                                                  !.target = process]))
  /\ pc' = [pc EXCEPT ![t] = "stop_wait"]
  /\ cycles' = Entered(t, "stop")
  /\ UNCHANGED <<process, procs, last>>

\* terminate() sent SIGTERM; stop() suspends in wait_for(process.wait(), 5.0).
StopTerminate(t) ==
  /\ running' = FALSE
  /\ procs' = [procs EXCEPT ![process] = IF @ = "alive" THEN "terminating" ELSE @]
  /\ call' = MarkStops(WithCall(t, [NoCall EXCEPT !.op = "stop",
                                                  !.target = process]))
  /\ pc' = [pc EXCEPT ![t] = "stop_wait"]
  /\ cycles' = Entered(t, "stop")
  /\ UNCHANGED <<process, last>>

\* terminate() raised: not a TimeoutError, so "finally" clears the handle and
\* the outer "except Exception" logs "Error stopping capture"; the call of
\* release_permission is not reached.
StopTerminateRaised(t) ==
  /\ running' = FALSE
  /\ process' = 0
  /\ Return(t, "stop", "None", "stop_error")
  /\ call' = MarkStops(WithCall(t, NoCall))
  /\ cycles' = Counted(Entered(t, "stop"), t, "stop", "None")
  /\ UNCHANGED procs

\* stop() from its entry to its first suspension, called by coroutine t.
StopFrom(t) ==
  IF ~running THEN StopNotRunning(t)
  ELSE IF process = 0 THEN StopNoProcess(t)
  ELSE \E o \in TerminateOutcomes(process) :
         IF o = "ok" THEN StopTerminate(t) ELSE StopTerminateRaised(t)

\* A caller calls stop().
StopEnter(t) ==
  /\ t \in Callers
  /\ pc[t] = "idle"
  /\ StopFrom(t)
  /\ UNCHANGED <<granted, rproc, nmVars>>

\* process.wait() returned within the grace period: "finally" clears the
\* handle and stop() suspends in release_permission.
StopWaitExited(t) ==
  /\ pc[t] = "stop_wait"
  /\ procs[call[t].target] = "gone"
  /\ process' = 0
  /\ pc' = [pc EXCEPT ![t] = "stop_release"]
  /\ call' = WithCall(t, [call[t] EXCEPT !.target = 0])
  /\ UNCHANGED <<running, procs, granted, last, rproc, cycles, nmVars>>

\* self.process.kill() succeeded on the process the handle names now;
\* "finally" clears the handle and stop() suspends in release_permission.
StopKill(t) ==
  /\ procs' = [procs EXCEPT ![process] = "gone"]
  /\ process' = 0
  /\ call' = WithCall(t, [call[t] EXCEPT !.target = 0])
  /\ pc' = [pc EXCEPT ![t] = "stop_release"]
  /\ UNCHANGED <<last, cycles>>

\* self.process.kill() raised inside the except clause: "finally" clears the
\* handle, the outer "except Exception" logs, release_permission is skipped.
StopKillRaised(t) ==
  /\ process' = 0
  /\ Return(t, "stop", "None", "stop_error")
  /\ call' = WithCall(t, NoCall)
  /\ cycles' = Counted(cycles, t, "stop", "None")
  /\ UNCHANGED procs

\* wait_for timed out after the grace period: asyncio.TimeoutError.
StopWaitTimeout(t) ==
  /\ pc[t] = "stop_wait"
  /\ procs[call[t].target] # "gone"
  /\ \E k \in KillOutcomes(process) :
       IF k = "ok" THEN StopKill(t) ELSE StopKillRaised(t)
  /\ UNCHANGED <<running, granted, rproc, nmVars>>

\* stop() resumed from release_permission("packet_capture"): it logs "Stopped
\* packet capture" and returns.
StopRelease(t) ==
  /\ pc[t] = "stop_release"
  /\ ReleasePermission
  /\ Return(t, "stop", "None", "stopped")
  /\ call' = WithCall(t, NoCall)
  /\ cycles' = Counted(cycles, t, "stop", "None")
  /\ UNCHANGED <<running, process, procs, rproc, nmVars>>

\* --------------------------------------------- TcpdumpMonitor._monitor_output

\* "while self.running and self.process": the task blocks in readline() of
\* the process the handle names now, or leaves the loop and ends.
ReaderLoop(r) ==
  IF running /\ process # 0
  THEN /\ pc' = [pc EXCEPT ![r] = "read"]
       /\ rproc' = [rproc EXCEPT ![r] = process]
  ELSE /\ pc' = [pc EXCEPT ![r] = "absent"]
       /\ rproc' = [rproc EXCEPT ![r] = 0]

\* The task created by start() runs for the first time.
ReaderStart(r) ==
  /\ r \in Readers
  /\ pc[r] = "new"
  /\ ReaderLoop(r)
  /\ UNCHANGED <<running, process, procs, granted, call, last, cycles, nmVars>>

\* readline() returned a line: it is queued and the loop condition is tested.
ReaderLine(r) ==
  /\ r \in Readers
  /\ pc[r] = "read"
  /\ ReaderLoop(r)
  /\ UNCHANGED <<running, process, procs, granted, call, last, cycles, nmVars>>

\* readline() returned b"" (the process exited): "break", the task ends and
\* touches neither running nor the handle.
ReaderEOF(r) ==
  /\ r \in Readers
  /\ pc[r] = "read"
  /\ procs[rproc[r]] = "gone"
  /\ pc' = [pc EXCEPT ![r] = "absent"]
  /\ rproc' = [rproc EXCEPT ![r] = 0]
  /\ UNCHANGED <<running, process, procs, granted, call, last, cycles, nmVars>>

\* readline() raised: the except clause logs and awaits self.stop().
ReaderError(r) ==
  /\ r \in Readers
  /\ pc[r] = "read"
  /\ StopFrom(r)
  /\ rproc' = [rproc EXCEPT ![r] = 0]
  /\ UNCHANGED <<granted, nmVars>>

\* ------------------------------------------------------------- environment

\* A process that received SIGTERM exits.
ProcExit(p) ==
  /\ procs[p] = "terminating"
  /\ procs' = [procs EXCEPT ![p] = "gone"]
  /\ UNCHANGED <<running, process, granted, pc, call, last, rproc, cycles,
                 nmVars>>

\* A process exits on its own, unexpectedly.
ProcDie(p) ==
  /\ procs[p] = "alive"
  /\ procs' = [procs EXCEPT ![p] = "gone"]
  /\ UNCHANGED <<running, process, granted, pc, call, last, rproc, cycles,
                 nmVars>>

\* ----------------------------------------------------------- NetworkMonitor

\* What a NetworkMonitor call left behind: it returned undefined (the promise
\* resolved) or threw.
NMResult(op, res, how) ==
  [obj |-> "NetworkMonitor", op |-> op, res |-> res, log |-> how]

\* "if (this.isRunning) return;".
NMStartAlreadyRunning ==
  /\ last' = NMResult("start", "undefined", "already")
  /\ UNCHANGED nmIsRunning

\* The flag is set; setupEventListeners() returns at once, tcpdumpProcess being
\* never assigned.
NMStartRun ==
  /\ nmIsRunning' = TRUE
  /\ last' = NMResult("start", "undefined", "started")

\* NetworkMonitor.start().
NMStart ==
  /\ IF nmIsRunning THEN NMStartAlreadyRunning ELSE NMStartRun
  /\ cycles' = -1
  /\ UNCHANGED monVars

\* NetworkMonitor.stop(): returns at once when not running; else clears the flag.
NMStop ==
  /\ IF ~nmIsRunning
     THEN /\ last' = NMResult("stop", "undefined", "none")
          /\ UNCHANGED nmIsRunning
     ELSE /\ nmIsRunning' = FALSE
          /\ last' = NMResult("stop", "undefined", "stopped")
  /\ cycles' = -1
  /\ UNCHANGED monVars

\* ------------------------------------------------------------ specification

\* The control operations of both monitors; the output pipeline is at rest.
Next ==
  \/ \E t \in Callers : StartEnter(t) /\ UNCHANGED <<pipeVars, otherVars>>
  \/ \E t \in Callers : StartPerm(t) /\ UNCHANGED <<pipeVars, otherVars>>
  \/ \E t \in Callers : StartBuild(t) /\ UNCHANGED <<pipeVars, otherVars>>
  \/ \E t \in Callers : StartSpawn(t) /\ UNCHANGED <<pipeVars, otherVars>>
  \/ \E t \in Callers : StopEnter(t) /\ UNCHANGED <<pipeVars, otherVars>>
  \/ \E t \in Threads : StopWaitExited(t) /\ UNCHANGED <<pipeVars, otherVars>>
  \/ \E t \in Threads : StopWaitTimeout(t) /\ UNCHANGED <<pipeVars, otherVars>>
  \/ \E t \in Threads : StopRelease(t) /\ UNCHANGED <<pipeVars, otherVars>>
  \/ \E r \in Readers : ReaderStart(r) /\ UNCHANGED <<pipeVars, otherVars>>
  \/ \E r \in Readers : ReaderLine(r) /\ UNCHANGED <<pipeVars, otherVars>>
  \/ \E r \in Readers : ReaderEOF(r) /\ UNCHANGED <<pipeVars, otherVars>>
  \/ \E r \in Readers : ReaderError(r) /\ UNCHANGED <<pipeVars, otherVars>>
  \/ \E p \in Procs : ProcExit(p) /\ UNCHANGED <<pipeVars, otherVars>>
  \/ \E p \in Procs : ProcDie(p) /\ UNCHANGED <<pipeVars, otherVars>>
  \/ NMStart /\ UNCHANGED <<pipeVars, otherVars>>
  \/ NMStop /\ UNCHANGED <<pipeVars, otherVars>>

Spec == Init /\ [][Next]_vars

\* ------------------------------------------------ the output pipeline

\* The client that starts and stops the monitor while the pipeline runs.
PipeCaller == CHOOSE t \in Callers : \A u \in Callers : u <= t

PipeThreads == {PipeCaller} \cup Readers

\* The larger of two line numbers.
Later(a, b) == IF a >= b THEN a ELSE b

\* The number of lines written and not read yet.
Unread == Cardinality({p \in Procs : pending[p]})

\* A subprocess writes one more line to its stdout pipe.
ProcWrite(p) ==
  /\ Live(p)
  /\ ~pending[p]
  /\ nread + Unread < MaxLines
  /\ pending' = [pending EXCEPT ![p] = TRUE]
  /\ UNCHANGED <<running, process, procs, granted, pc, call, last, rproc,
                 cycles, nmVars>>
  /\ UNCHANGED <<nread, queue, cpc, cline, ccb, maxStarted, delivered>>

\* The slot of the next _process_packets task.
NextConsumer ==
  CHOOSE c \in Consumers :
    cpc[c] = "absent" /\ \A d \in Consumers : cpc[d] = "absent" => c <= d

\* start() resumed from create_subprocess_exec; when it spawned, the fresh
\* process has written nothing and "asyncio.create_task(self._process_packets())"
\* adds a processing task next to the reader task.
PipeStartSpawn(t) ==
  /\ StartSpawn(t)
  /\ IF procs' # procs
     THEN /\ \E c \in Consumers : cpc[c] = "absent"
          /\ cpc' = [cpc EXCEPT ![NextConsumer] = "new"]
          /\ pending' = [pending EXCEPT ![process'] = FALSE]
     ELSE UNCHANGED <<cpc, pending>>
  /\ UNCHANGED <<nread, queue, cline, ccb, maxStarted, delivered>>

\* Mutant of PipeReaderLine: the line read is not put on the queue.
PipeReaderLineDrops(r) ==
  /\ ReaderLine(r)
  /\ pending[rproc[r]]
  /\ pending' = [pending EXCEPT ![rproc[r]] = FALSE]
  /\ nread' = nread + 1
  /\ UNCHANGED <<queue, cpc, cline, ccb, maxStarted, delivered>>

\* readline() returned the line the process wrote: "await
\* self.output_queue.put(line.decode().strip())" appends it to the unbounded
\* queue without suspending, and the loop condition is tested.
PipeReaderLine(r) ==
  /\ ReaderLine(r)
  /\ pending[rproc[r]]
  /\ pending' = [pending EXCEPT ![rproc[r]] = FALSE]
  /\ nread' = nread + 1
  /\ queue' = Append(queue, nread + 1)
  /\ UNCHANGED <<cpc, cline, ccb, maxStarted, delivered>>

\* readline() returned b"": the process has exited and its pipe is drained.
PipeReaderEOF(r) ==
  /\ ReaderEOF(r)
  /\ ~pending[rproc[r]]
  /\ UNCHANGED <<pipeVars, otherVars>>

\* _notify_callbacks("packet", ...): task c invokes callback k with line l
\* and awaits it in _safe_callback.
InvokeCallback(c, l, k, q, done) ==
  /\ cpc' = [cpc EXCEPT ![c] = "cb"]
  /\ cline' = [cline EXCEPT ![c] = l]
  /\ ccb' = [ccb EXCEPT ![c] = k]
  /\ maxStarted' = [maxStarted EXCEPT ![k] = Later(@, l)]
  /\ queue' = q
  /\ delivered' = done

\* "while self.running": the task ends, or calls output_queue.get(), which
\* hands over the oldest line at once when there is one (_parse_packet never
\* suspends, so the first callback is invoked in the same step) and suspends
\* the task when the queue is empty.
ConsumerLoop(c, done) ==
  IF ~running
  THEN /\ cpc' = [cpc EXCEPT ![c] = "absent"]
       /\ cline' = [cline EXCEPT ![c] = 0]
       /\ ccb' = [ccb EXCEPT ![c] = 0]
       /\ delivered' = done
       /\ UNCHANGED <<queue, maxStarted>>
  ELSE IF queue = <<>>
  THEN /\ cpc' = [cpc EXCEPT ![c] = "get"]
       /\ cline' = [cline EXCEPT ![c] = 0]
       /\ ccb' = [ccb EXCEPT ![c] = 0]
       /\ delivered' = done
       /\ UNCHANGED <<queue, maxStarted>>
  ELSE InvokeCallback(c, Head(queue), 1, Tail(queue), done)

\* The task created by start() runs for the first time.
ConsumerStart(c) ==
  /\ cpc[c] = "new"
  /\ ConsumerLoop(c, delivered)
  /\ UNCHANGED <<pending, nread>>
  /\ UNCHANGED <<running, process, procs, granted, pc, call, last, rproc,
                 cycles, nmVars>>

\* output_queue.get() returns to a task suspended in it: the line is parsed
\* and the first callback invoked, whatever self.running is by now.
ConsumerGet(c) ==
  /\ cpc[c] = "get"
  /\ queue # <<>>
  /\ InvokeCallback(c, Head(queue), 1, Tail(queue), delivered)
  /\ UNCHANGED <<pending, nread>>
  /\ UNCHANGED <<running, process, procs, granted, pc, call, last, rproc,
                 cycles, nmVars>>

\* The awaited callback returned, or raised and was logged: the next
\* registered callback is invoked; after the last one the loop goes round.
ConsumerCallbackReturn(c) ==
  /\ cpc[c] = "cb"
  /\ IF ccb[c] < NumCallbacks
     THEN InvokeCallback(c, cline[c], ccb[c] + 1, queue, delivered)
     ELSE ConsumerLoop(c, delivered \cup {cline[c]})
  /\ UNCHANGED <<pending, nread>>
  /\ UNCHANGED <<running, process, procs, granted, pc, call, last, rproc,
                 cycles, nmVars>>

\* One client starting and stopping the TcpdumpMonitor while its subprocesses
\* write and the reader and processing tasks run.  readline() is taken not to
\* raise here: the reader's except clause, which calls stop(), is part of Next.
PipeNext ==
  \/ StartEnter(PipeCaller) /\ UNCHANGED <<pipeVars, otherVars>>
  \/ StartPerm(PipeCaller) /\ UNCHANGED <<pipeVars, otherVars>>
  \/ StartBuild(PipeCaller) /\ UNCHANGED <<pipeVars, otherVars>>
  \/ PipeStartSpawn(PipeCaller) /\ UNCHANGED otherVars
  \/ StopEnter(PipeCaller) /\ UNCHANGED <<pipeVars, otherVars>>
  \/ \E t \in PipeThreads : StopWaitExited(t) /\ UNCHANGED <<pipeVars, otherVars>>
  \/ \E t \in PipeThreads : StopWaitTimeout(t) /\ UNCHANGED <<pipeVars, otherVars>>
  \/ \E t \in PipeThreads : StopRelease(t) /\ UNCHANGED <<pipeVars, otherVars>>
  \/ \E r \in Readers : ReaderStart(r) /\ UNCHANGED <<pipeVars, otherVars>>
  \/ \E r \in Readers : PipeReaderLine(r) /\ UNCHANGED otherVars
  \/ \E r \in Readers : PipeReaderEOF(r)
  \/ \E p \in Procs : ProcExit(p) /\ UNCHANGED <<pipeVars, otherVars>>
  \/ \E p \in Procs : ProcDie(p) /\ UNCHANGED <<pipeVars, otherVars>>
  \/ \E p \in Procs : ProcWrite(p) /\ UNCHANGED otherVars
  \/ \E c \in Consumers : ConsumerStart(c) /\ UNCHANGED otherVars
  \/ \E c \in Consumers : ConsumerGet(c) /\ UNCHANGED otherVars
  \/ \E c \in Consumers : ConsumerCallbackReturn(c) /\ UNCHANGED otherVars

SpecPipe == Init /\ [][PipeNext]_vars

\* The event loop runs every task that is ready: a reader whose readline()
\* has a line, a processing task whose get() has an item, and every awaited
\* callback returns.
PipeFairness ==
  /\ \A r \in Readers :
       WF_vars(ReaderStart(r) /\ UNCHANGED <<pipeVars, otherVars>>)
  /\ \A r \in Readers : WF_vars(PipeReaderLine(r) /\ UNCHANGED otherVars)
  /\ \A c \in Consumers : WF_vars(ConsumerStart(c) /\ UNCHANGED otherVars)
  /\ \A c \in Consumers : WF_vars(ConsumerGet(c) /\ UNCHANGED otherVars)
  /\ \A c \in Consumers :
       WF_vars(ConsumerCallbackReturn(c) /\ UNCHANGED otherVars)

SpecPipeFair == SpecPipe /\ PipeFairness

\* ----------------------------------------------------- the parser at work

HasEvent == "raw_output" \in DOMAIN event

\* Time passes.
Tick ==
  /\ \E t \in Clock : now' = t /\ t # now /\ TsLeq(now, t)
  /\ UNCHANGED <<raw, event, stamp, tier, expl, renders, nmEvent>>
  /\ UNCHANGED ctlVars
  /\ UNCHANGED <<pipeVars, aeVars, streamVars, cmdVars, restVars>>

\* The lines the try block of _parse_packet gets through.
WellFormed == {l \in InputLines : ParseError(l) = "none"}

\* _parse_packet(l) called at time t, for the lines and times in reach.
Parsed == [l \in InputLines, t \in Clock |-> ParsePacket(l, t)]

\* _process_packets hands the next line to _parse_packet.  tcpdump stamps
\* its lines in non-decreasing order and a line is parsed after it was
\* stamped.
ParseLine(l) ==
  /\ l \in WellFormed => /\ TsLeq(stamp, Parsed[l, now].timestamp)
                         /\ TsLeq(Parsed[l, now].timestamp, now)
  /\ raw' = l
  /\ event' = Parsed[l, now]
  /\ stamp' = IF l \in WellFormed THEN Parsed[l, now].timestamp ELSE stamp
  /\ tier' = "none"
  /\ expl' = <<>>
  /\ renders' = 0
  /\ UNCHANGED <<now, nmEvent>>
  /\ UNCHANGED ctlVars
  /\ UNCHANGED <<pipeVars, aeVars, streamVars, cmdVars, restVars>>

\* A client renders the latest event at a tier.
Render(t) ==
  /\ HasEvent
  /\ tier' = t
  /\ expl' = GetExplanation(event, t)
  /\ renders' = IF t # tier THEN 1
              ELSE IF renders < MaxRenders THEN renders + 1 ELSE renders
  /\ UNCHANGED <<now, raw, event, stamp, nmEvent>>
  /\ UNCHANGED ctlVars
  /\ UNCHANGED <<pipeVars, aeVars, streamVars, cmdVars, restVars>>

\* NetworkMonitor.determineSeverity: the file imports SecurityEvent,
\* SecurityEventSource and SecurityEventType only, so the name
\* SecurityEventSeverity is bound to nothing when the body runs and the
\* call throws.
DetermineSeverity(data) == [exception |-> "ReferenceError"]

\* Buffer.toString() of a chunk of ASCII bytes: one character for each byte.
BufferToString(data) == [i \in 1 .. Len(data) |-> data[i]]

\* NetworkMonitor.parseNetworkData(data) called at time now: the properties of
\* the object literal are evaluated in order and the first error ends it.
ParseNetworkData(data, now_) ==
  LET severity == DetermineSeverity(BufferToString(data)) IN
    IF "exception" \in DOMAIN severity THEN severity
    ELSE [timestamp |-> now_,
          source |-> "tcpdump",
          type |-> "network_connection",
          severity |-> severity,
          rawData |-> BufferToString(data),
          metadata |-> <<>>]

\* The 'data' listener of setupEventListeners hands a chunk of output to
\* parseNetworkData.
NMParseData(l) ==
  /\ nmEvent' = ParseNetworkData(l, now)
  /\ UNCHANGED <<now, raw, event, stamp, tier, expl, renders>>
  /\ UNCHANGED ctlVars
  /\ UNCHANGED <<pipeVars, aeVars, streamVars, cmdVars, restVars>>

ParseNext ==
  \/ Tick
  \/ \E l \in InputLines : ParseLine(l)
  \/ \E t \in Tiers : Render(t)
  \/ \E l \in InputLines : NMParseData(l)

SpecParse == Init /\ [][ParseNext]_vars

\* ----------------------------------------------------------- AnalysisEngine

\* Mutant of UpdateContextWindow: nothing is shifted out.
UpdateContextWindowKeepsAll(window, event_) == Append(window, event_)

\* Mutant of UpdateContextWindow: the newest event is the one dropped.
UpdateContextWindowDropsNewest(window, event_) ==
  IF Len(window) + 1 > MAX_CONTEXT_EVENTS THEN window
  ELSE Append(window, event_)

\* updateContextWindow(event): push, then shift when longer than the maximum.
UpdateContextWindow(window, event_) ==
  IF Len(window) + 1 > MAX_CONTEXT_EVENTS
  THEN Tail(Append(window, event_))
  ELSE Append(window, event_)

\* findRelatedEvents(event).
FindRelatedEvents(event_) == <<>>

\* new AnalysisEngine(userProfile).
NewAnalysisEngine(level) ==
  /\ userProfile = "none"
  /\ userProfile' = level
  /\ UNCHANGED <<contextWindow, analysing, analysisResult, analysed>>
  /\ UNCHANGED <<ctlVars, pipeVars, parseVars, streamVars, cmdVars,
                 restVars>>

\* analyzeSecurityEvent(event) up to its await: the event, the next one the
\* monitor produced, enters the context window.  The method has one
\* parameter; a tier the caller asks for is an argument it does not read.
AnalyzeSecurityEvent(protocol, requested) ==
  /\ userProfile # "none"
  /\ analysed < MaxEvents
  /\ Len(analysing) < MaxInFlight
  /\ analysed >= MaxVaried => protocol = "TCP"
  /\ LET event_ == [id |-> analysed + 1, metadata |-> [protocol |-> protocol]]
     IN /\ contextWindow' = UpdateContextWindow(contextWindow, event_)
        /\ analysing' =
             Append(analysing, [event |-> event_, requested |-> requested])
  /\ analysed' = analysed + 1
  /\ UNCHANGED <<userProfile, analysisResult>>
  /\ UNCHANGED <<ctlVars, pipeVars, parseVars, streamVars, cmdVars,
                 restVars>>

\* analyzeSecurityEvent after its await, the calls resuming in the order they
\* were made: adaptComplexityLevel gives the level of the profile, and the
\* AnalysisResult is returned.
AnalyzeReturn ==
  /\ analysing # <<>>
  /\ analysisResult' =
       Some([call |-> Head(analysing),
             rawEvent |-> Head(analysing).event,
             complexityLevel |-> userProfile,
             relatedEvents |-> FindRelatedEvents(Head(analysing).event),
             learningOpportunities |-> <<>>])
  /\ analysing' = Tail(analysing)
  /\ UNCHANGED <<userProfile, contextWindow, analysed>>
  /\ UNCHANGED <<ctlVars, pipeVars, parseVars, streamVars, cmdVars,
                 restVars>>

SpecAnalysis ==
  Init /\ [][\/ \E level \in ExpertiseLevel : NewAnalysisEngine(level)
             \/ \E protocol \in {"TCP", "UDP"},
                   requested \in {None, Some("beginner"), Some("expert")} :
                  AnalyzeSecurityEvent(protocol, requested)
             \/ AnalyzeReturn]_vars

\* ---------------------------------------------------------- ScanPlanManager

\* The scans initialize() registers.
Scans ==
  [ports |->
     [friendly |-> "Check for hidden listening ports",
      command |-> "lsof -i -n -P | grep LISTEN",
      description |-> "Identifies potentially malicious listening ports"],
   network |->
     [friendly |-> "Monitor suspicious network activity",
      command |-> "tcpdump -i any -n",
      description |-> "Captures and analyzes network traffic in real-time"],
   connections |->
     [friendly |-> "Check active connections",
      command |-> "netstat -tunapl",
      description |->
        "Lists all active network connections and their processes"]]

\* The stream types for which the page has an element "<type>-stream".
StreamElements == {"crisis", "knowledge"}

\* Mutant of EmitToStream: the entry is inserted before the first child.
EmitToStreamFirst(streamType, stream, content) ==
  IF streamType \in StreamElements
  THEN <<[finding |-> findings + 1, content |-> content]>> \o stream
  ELSE stream

\* emitToStream(streamType, content): the children of the stream element
\* after the call.  An entry carries the number of the finding (scan start
\* or result chunk) it was made for.
EmitToStream(streamType, stream, content) ==
  IF streamType \in StreamElements
  THEN Append(stream, [finding |-> findings + 1, content |-> content])
  ELSE stream

\* Mutant of ProcessStreamingResults: the result goes to the crisis stream
\* only.
ProcessStreamingResultsCrisisOnly(data) ==
  IF data.json = "object"
  THEN /\ crisisStream' = EmitToStream("crisis", crisisStream, data.crisis)
       /\ findings' = findings + 1
       /\ UNCHANGED knowledgeStream
  ELSE UNCHANGED <<crisisStream, knowledgeStream, findings>>

\* processStreamingResults(data): parse, emit to both streams; an exception
\* of the parse or of the member access is caught before anything is emitted.
ProcessStreamingResults(data) ==
  IF data.json = "object"
  THEN /\ crisisStream' = EmitToStream("crisis", crisisStream, data.crisis)
       /\ knowledgeStream' =
            EmitToStream("knowledge", knowledgeStream, data.knowledge)
       /\ findings' = findings + 1
  ELSE UNCHANGED <<crisisStream, knowledgeStream, findings>>

\* The checkboxes of the scan-plan template, first first: the text next to
\* each and what its dataset.scan gives (no box has a data-scan attribute).
ScanPlanTemplate ==
  <<[label |-> "Check for hidden listening ports", scan |-> "undefined"],
    [label |-> "Monitor suspicious network activity", scan |-> "undefined"],
    [label |-> "Check active connections", scan |-> "undefined"]>>

\* The body of executeScans(), for the boxes of the plan: each unchecked,
\* checked as the template has it, or checked and carrying as data-scan
\* attribute the key initialize() registers its scan under.  The selected
\* scan ids are the dataset.scan of the checked boxes; the loop skips an id
\* that is not the key of a scan, and the call returns when no scan is left.
ExecuteScans(box) ==
  /\ scanPc = "countdown"
  /\ LET on == SelectSeq(<<1, 2, 3>>, LAMBDA i : box[i] # "unchecked")
         checked ==
           [j \in DOMAIN on |->
              IF box[on[j]] = "checked" THEN ScanPlanTemplate[on[j]]
              ELSE [ScanPlanTemplate[on[j]] EXCEPT
                      !.scan = <<"ports", "network", "connections">>[on[j]]]]
         selectedScans == [i \in DOMAIN checked |-> checked[i].scan]
     IN /\ Len(on) <= MaxSelected
        /\ checkedBoxes' = checked
        /\ scanQueue' =
             SelectSeq(selectedScans, LAMBDA scanId : scanId \in DOMAIN Scans)
  /\ scanPc' = IF scanQueue' = <<>> THEN "done" ELSE "loop"
  /\ UNCHANGED <<chunksRead, findings, crisisStream, knowledgeStream, started>>
  /\ UNCHANGED <<ctlVars, pipeVars, parseVars, aeVars, cmdVars, restVars>>

\* executeScan(scan) up to the await of fetch: the start of the scan is
\* emitted to both streams.
ExecuteScan ==
  /\ scanPc = "loop"
  /\ LET scan == Scans[Head(scanQueue)] IN
       /\ crisisStream' =
            EmitToStream("crisis", crisisStream, "Starting: " \o scan.friendly)
       /\ knowledgeStream' =
            EmitToStream("knowledge", knowledgeStream,
                         "Executing " \o scan.command \o " to "
                           \o scan.description)
  /\ findings' = findings + 1
  /\ started' = Append(started, [scan |-> Head(scanQueue),
                                 outcome |-> "running"])
  /\ scanPc' = "fetch"
  /\ UNCHANGED <<scanQueue, chunksRead, checkedBoxes>>
  /\ UNCHANGED <<ctlVars, pipeVars, parseVars, aeVars, cmdVars, restVars>>

\* Mutant of FetchSettles: the exception of a failed scan is not caught and
\* executeScans rejects.
FetchSettlesUncaught(ok) ==
  /\ scanPc = "fetch"
  /\ IF ok
     THEN /\ scanPc' = "read"
          /\ chunksRead' = 0
          /\ UNCHANGED <<scanQueue, started>>
     ELSE /\ scanPc' = "rejected"
          /\ started' = [started EXCEPT ![Len(started)].outcome = "failed"]
          /\ UNCHANGED <<scanQueue, chunksRead>>
  /\ UNCHANGED <<findings, crisisStream, knowledgeStream, checkedBoxes>>
  /\ UNCHANGED <<ctlVars, pipeVars, parseVars, aeVars, cmdVars, restVars>>

\* The fetch of /api/execute-scan settles.  A response that is not ok makes
\* executeScan throw (as a rejected fetch does); executeScans catches it and
\* goes on with the next scan, or returns after the last.
FetchSettles(ok) ==
  /\ scanPc = "fetch"
  /\ IF ok
     THEN /\ scanPc' = "read"
          /\ chunksRead' = 0
          /\ UNCHANGED <<scanQueue, started>>
     ELSE /\ scanPc' = IF Tail(scanQueue) = <<>> THEN "done" ELSE "loop"
          /\ scanQueue' = Tail(scanQueue)
          /\ started' = [started EXCEPT ![Len(started)].outcome = "failed"]
          /\ UNCHANGED chunksRead
  /\ UNCHANGED <<findings, crisisStream, knowledgeStream, checkedBoxes>>
  /\ UNCHANGED <<ctlVars, pipeVars, parseVars, aeVars, cmdVars, restVars>>

\* reader.read() gives a chunk, which is processed.
ReadChunk(data) ==
  /\ scanPc = "read"
  /\ chunksRead < MaxChunks
  /\ ProcessStreamingResults(data)
  /\ chunksRead' = chunksRead + 1
  /\ UNCHANGED <<scanQueue, scanPc, checkedBoxes, started>>
  /\ UNCHANGED <<ctlVars, pipeVars, parseVars, aeVars, cmdVars, restVars>>

\* reader.read() rejects: executeScan throws, executeScans catches it and
\* goes on with the next scan, or returns after the last.
ReadFails ==
  /\ scanPc = "read"
  /\ scanPc' = IF Tail(scanQueue) = <<>> THEN "done" ELSE "loop"
  /\ scanQueue' = Tail(scanQueue)
  /\ started' = [started EXCEPT ![Len(started)].outcome = "failed"]
  /\ UNCHANGED <<chunksRead, findings, crisisStream, knowledgeStream,
                 checkedBoxes>>
  /\ UNCHANGED <<ctlVars, pipeVars, parseVars, aeVars, cmdVars, restVars>>

\* reader.read() gives done: executeScan returns, and the loop goes on with
\* the next scan, or executeScans returns after the last.
ReadDone ==
  /\ scanPc = "read"
  /\ scanPc' = IF Tail(scanQueue) = <<>> THEN "done" ELSE "loop"
  /\ scanQueue' = Tail(scanQueue)
  /\ started' = [started EXCEPT ![Len(started)].outcome = "ended"]
  /\ UNCHANGED <<chunksRead, findings, crisisStream, knowledgeStream,
                 checkedBoxes>>
  /\ UNCHANGED <<ctlVars, pipeVars, parseVars, aeVars, cmdVars, restVars>>

\* The chunks reader.read() gives are told apart by what JSON.parse makes of
\* their text: an object with a crisis and a knowledge member, the value null
\* (reading a member of it throws a TypeError), or a SyntaxError for a text
\* that is not one JSON value.
SpecStreams ==
  Init /\ [][\/ \E box \in [DOMAIN ScanPlanTemplate ->
                              {"unchecked", "checked", "data-scan"}] :
                  ExecuteScans(box)
             \/ ExecuteScan
             \/ \E ok \in BOOLEAN : FetchSettles(ok)
             \/ \E data \in
                   {[json |-> "object", crisis |-> "Port 4444 is listening",
                     knowledge |-> k] :
                      k \in {"A listening port accepts connections",
                             "undefined"}}
                   \cup {[json |-> "null"], [json |-> "SyntaxError"]} :
                  ReadChunk(data)
             \/ ReadFails
             \/ ReadDone]_vars

\* ------------------------------------------- ScanPlanManager, the countdown

\* initialize(): the scans are registered, renderScanPlan() puts the plan on
\* the page and sets the listeners up, startCountdown() creates the first
\* interval timer.
Initialize ==
  /\ countdownInterval = 0
  /\ countdownInterval' = 1
  /\ intervals' = {1}
  /\ UNCHANGED <<countdownTime, isPaused, executions, pauseAsked>>
  /\ UNCHANGED <<ctlVars, pipeVars, parseVars, aeVars, streamVars, cmdVars>>
  /\ UNCHANGED <<notifyPacket, notifyIndex, notifyLog, currentLevel,
                 packetDisplay, received, clicks>>

\* The callback of interval timer i runs.  It calls executeScans() when the
\* countdown is at or below zero after the decrement (the body of the call
\* is ExecuteScans) and clears the timer countdownInterval names.
TimerTick(i) ==
  /\ i \in intervals
  /\ executions < MaxExecutions
  /\ IF ~isPaused
     THEN /\ countdownTime' = countdownTime - 1
          /\ IF countdownTime' <= 0
             THEN /\ executions' = executions + 1
                  /\ intervals' = intervals \ {countdownInterval}
             ELSE UNCHANGED <<executions, intervals>>
     ELSE UNCHANGED <<countdownTime, executions, intervals>>
  /\ UNCHANGED <<isPaused, countdownInterval, pauseAsked>>
  /\ UNCHANGED <<ctlVars, pipeVars, parseVars, aeVars, streamVars, cmdVars>>
  /\ UNCHANGED <<notifyPacket, notifyIndex, notifyLog, currentLevel,
                 packetDisplay, received, clicks>>

\* pauseCountdown().
PauseCountdown ==
  /\ countdownInterval # 0
  /\ isPaused' = TRUE
  /\ intervals' = intervals \ {countdownInterval}
  /\ pauseAsked' = TRUE
  /\ UNCHANGED <<countdownTime, countdownInterval, executions>>
  /\ UNCHANGED <<ctlVars, pipeVars, parseVars, aeVars, streamVars, cmdVars>>
  /\ UNCHANGED <<notifyPacket, notifyIndex, notifyLog, currentLevel,
                 packetDisplay, received, clicks>>

\* resumeCountdown(): startCountdown() creates one more interval timer and
\* countdownInterval names it.
ResumeCountdown ==
  /\ countdownInterval # 0
  /\ countdownInterval < MaxIntervals
  /\ isPaused' = FALSE
  /\ countdownInterval' = countdownInterval + 1
  /\ intervals' = intervals \cup {countdownInterval + 1}
  /\ pauseAsked' = FALSE
  /\ UNCHANGED <<countdownTime, executions>>
  /\ UNCHANGED <<ctlVars, pipeVars, parseVars, aeVars, streamVars, cmdVars>>
  /\ UNCHANGED <<notifyPacket, notifyIndex, notifyLog, currentLevel,
                 packetDisplay, received, clicks>>

\* A key is pressed: while the countdown is above zero the listener pauses
\* it; showModifyModal, which it calls next, is not a method of the class
\* (the TypeError ends the listener).
KeyPress ==
  /\ countdownInterval # 0
  /\ countdownTime > 0
  /\ isPaused' = TRUE
  /\ intervals' = intervals \ {countdownInterval}
  /\ pauseAsked' = TRUE
  /\ UNCHANGED <<countdownTime, countdownInterval, executions>>
  /\ UNCHANGED <<ctlVars, pipeVars, parseVars, aeVars, streamVars, cmdVars>>
  /\ UNCHANGED <<notifyPacket, notifyIndex, notifyLog, currentLevel,
                 packetDisplay, received, clicks>>

\* The user clicks Modify Plan while the countdown is above zero.  The button
\* of the template has no data-action attribute, so querySelector found no
\* button and no listener was added: the manager does nothing.
ModifyPlanClick ==
  /\ countdownInterval # 0
  /\ countdownTime > 0
  /\ pauseAsked' = TRUE
  /\ UNCHANGED <<countdownTime, isPaused, countdownInterval, intervals,
                 executions>>
  /\ UNCHANGED <<ctlVars, pipeVars, parseVars, aeVars, streamVars, cmdVars>>
  /\ UNCHANGED <<notifyPacket, notifyIndex, notifyLog, currentLevel,
                 packetDisplay, received, clicks>>

SpecCountdown ==
  Init /\ [][\/ Initialize
             \/ \E i \in 1 .. MaxIntervals : TimerTick(i)
             \/ PauseCountdown
             \/ ResumeCountdown
             \/ KeyPress
             \/ ModifyPlanClick]_vars

\* ------------------------------------ TcpdumpMonitor._build_capture_command

\* What permission_manager.get_command_wrapper("tcpdump") returns: nothing, or
\* the command to run tcpdump under.
CommandWrappers == {None, Some("sudo")}

\* Mutant of BuildCaptureCommand: the command is one line handed to a shell.
BuildCaptureCommandShell(tcpdump_path, wrapper, interface, packet_filter) ==
  IF tcpdump_path = None THEN None
  ELSE <<"/bin/sh", "-c",
         (IF wrapper # None THEN wrapper[1] \o " " ELSE "")
           \o tcpdump_path[1] \o " -i " \o interface \o " -tttt -l -n"
           \o (IF packet_filter # "" THEN " -vv " \o packet_filter ELSE "")>>

\* _build_capture_command(interface, packet_filter), for the path
\* _find_tcpdump found (or None) and the wrapper the permission manager gave.
BuildCaptureCommand(tcpdump_path, wrapper, interface, packet_filter) ==
  IF tcpdump_path = None THEN None
  ELSE LET found == <<tcpdump_path[1]>>
           wrapped == IF wrapper # None THEN <<wrapper[1]>> \o found
                      ELSE found
           based == wrapped \o <<"-i", interface, "-tttt", "-l", "-n">>
       IN IF packet_filter # "" THEN based \o <<"-vv", packet_filter>>
          ELSE based

\* start(interface, packet_filter) from the call of _build_capture_command
\* to create_subprocess_exec(*cmd): cmd is the argument vector the process
\* is created with, its first element the program; no process is created
\* when no command was built.
BuildAndExec(tcpdump_path, wrapper, interface, packet_filter) ==
  /\ cmdArgs' = Some([tcpdump_path |-> tcpdump_path, wrapper |-> wrapper,
                      interface |-> interface,
                      packet_filter |-> packet_filter])
  /\ cmd' = BuildCaptureCommand(tcpdump_path, wrapper, interface,
                                packet_filter)
  /\ UNCHANGED <<ctlVars, pipeVars, parseVars, aeVars, streamVars,
                 restVars>>

\* The paths are those _find_tcpdump looks at; the interfaces and filters
\* are strings a caller of start() can pass, the defaults among them.
SpecCmd ==
  Init /\ [][\E tcpdump_path \in
                  {None, Some("/usr/sbin/tcpdump"),
                   Some("/usr/local/sbin/tcpdump"),
                   Some("/opt/homebrew/bin/tcpdump")},
                wrapper \in CommandWrappers,
                interface \in {"any", "eth0", "", "-w /tmp/x",
                               "eth0; rm -rf /"},
                packet_filter \in {"", "port 80", "-n", "$(reboot)",
                                   "port 80; rm -rf /"} :
               BuildAndExec(tcpdump_path, wrapper, interface,
                            packet_filter)]_vars

\* ------------------------------------- TcpdumpMonitor._notify_callbacks

\* _process_packets has parsed the next packet and calls
\* _notify_callbacks("packet", packet_data), which awaits _safe_callback for
\* the first registered callback.
NotifyCallbacks ==
  /\ notifyIndex = 0
  /\ notifyPacket < MaxPackets
  /\ notifyPacket' = notifyPacket + 1
  /\ notifyIndex' = 1
  /\ UNCHANGED notifyLog
  /\ UNCHANGED <<ctlVars, pipeVars, parseVars, aeVars, streamVars, cmdVars>>
  /\ UNCHANGED <<countdownTime, isPaused, countdownInterval, intervals,
                 executions, pauseAsked, currentLevel, packetDisplay,
                 received, clicks>>

\* Mutant of CallbackSettles: an exception of a callback is not caught before
\* _process_packets, which logs it and takes the next packet.
CallbackSettlesUncaught(raised) ==
  /\ notifyIndex # 0
  /\ notifyLog' = Append(notifyLog, [packet |-> notifyPacket,
                                     callback |-> notifyIndex,
                                     raised |-> raised])
  /\ notifyIndex' = IF raised \/ notifyIndex = NumCallbacks THEN 0
                    ELSE notifyIndex + 1
  /\ UNCHANGED notifyPacket
  /\ UNCHANGED <<ctlVars, pipeVars, parseVars, aeVars, streamVars, cmdVars>>
  /\ UNCHANGED <<countdownTime, isPaused, countdownInterval, intervals,
                 executions, pauseAsked, currentLevel, packetDisplay,
                 received, clicks>>

\* The callback awaited returns, or raises an Exception, which _safe_callback
\* catches and logs: _notify_callbacks goes on with the next registered
\* callback, and returns to the loop of _process_packets after the last.
CallbackSettles(raised) ==
  /\ notifyIndex # 0
  /\ notifyLog' = Append(notifyLog, [packet |-> notifyPacket,
                                     callback |-> notifyIndex,
                                     raised |-> raised])
  /\ notifyIndex' = IF notifyIndex = NumCallbacks THEN 0 ELSE notifyIndex + 1
  /\ UNCHANGED notifyPacket
  /\ UNCHANGED <<ctlVars, pipeVars, parseVars, aeVars, streamVars, cmdVars>>
  /\ UNCHANGED <<countdownTime, isPaused, countdownInterval, intervals,
                 executions, pauseAsked, currentLevel, packetDisplay,
                 received, clicks>>

SpecNotify ==
  Init /\ [][\/ NotifyCallbacks
             \/ \E raised \in BOOLEAN : CallbackSettles(raised)]_vars

\* --------------------------------------------------- the packet display

\* Mutant of PacketData: the new entry becomes the last child.
PacketDataAppends(data) ==
  /\ received < MaxReceived
  /\ received >= MaxOddPackets => data.novice_explanation # None
  /\ received' = received + 1
  /\ LET key == currentLevel \o "_explanation"
         explanation == IF key \in DOMAIN data THEN data[key] ELSE None
         packetDiv ==
           [id |-> received + 1,
            data |-> data,
            textContent |->
              IF explanation # None /\ explanation[1] # ""
              THEN explanation[1] ELSE data.raw[1]]
         children == Append(packetDisplay, packetDiv)
     IN packetDisplay' =
          IF Len(children) > KeepLatest
          THEN SubSeq(children, 1, Len(children) - 1) ELSE children
  /\ UNCHANGED <<currentLevel, clicks>>
  /\ UNCHANGED <<ctlVars, pipeVars, parseVars, aeVars, streamVars, cmdVars>>
  /\ UNCHANGED <<countdownTime, isPaused, countdownInterval, intervals,
                 executions, pauseAsked, notifyPacket, notifyIndex,
                 notifyLog>>

\* The packet_data listener: the new entry keeps the packet (its dataset
\* holds the packet's four texts, each converted to a string when read),
\* shows the explanation of the current level, or the raw line when that is
\* missing or empty, and becomes the first child; the last child is removed
\* when there are more than KeepLatest.
PacketData(data) ==
  /\ received < MaxReceived
  /\ received >= MaxOddPackets => data.novice_explanation # None
  /\ received' = received + 1
  /\ LET key == currentLevel \o "_explanation"
         explanation == IF key \in DOMAIN data THEN data[key] ELSE None
         packetDiv ==
           [id |-> received + 1,
            data |-> data,
            textContent |->
              IF explanation # None /\ explanation[1] # ""
              THEN explanation[1] ELSE data.raw[1]]
         children == <<packetDiv>> \o packetDisplay
     IN packetDisplay' =
          IF Len(children) > KeepLatest
          THEN SubSeq(children, 1, Len(children) - 1) ELSE children
  /\ UNCHANGED <<currentLevel, clicks>>
  /\ UNCHANGED <<ctlVars, pipeVars, parseVars, aeVars, streamVars, cmdVars>>
  /\ UNCHANGED <<countdownTime, isPaused, countdownInterval, intervals,
                 executions, pauseAsked, notifyPacket, notifyIndex,
                 notifyLog>>

\* The click listener of the tab of a level: the level becomes the current
\* one and every entry shows what its dataset holds for it, which is the
\* text "undefined" for a text the packet came without.
TabClick(level) ==
  /\ clicks < MaxClicks
  /\ clicks' = clicks + 1
  /\ currentLevel' = level
  /\ packetDisplay' =
       [i \in DOMAIN packetDisplay |->
          LET held == IF level = "raw" THEN packetDisplay[i].data.raw
                      ELSE packetDisplay[i].data[level \o "_explanation"]
          IN [packetDisplay[i] EXCEPT
                !.textContent = IF held = None THEN "undefined" ELSE held[1]]]
  /\ UNCHANGED received
  /\ UNCHANGED <<ctlVars, pipeVars, parseVars, aeVars, streamVars, cmdVars>>
  /\ UNCHANGED <<countdownTime, isPaused, countdownInterval, intervals,
                 executions, pauseAsked, notifyPacket, notifyIndex,
                 notifyLog>>

\* The packets are a SYN the server explained at every level and one it sent
\* without the novice explanation; the tabs are those of the page.
SpecPage ==
  Init /\ [][\/ \E novice \in {None, Some("Someone is opening a connection")} :
                  PacketData([novice_explanation |-> novice,
                              apprentice_explanation |-> Some("TCP SYN"),
                              guardian_explanation |->
                                Some("TCP 10.0.0.5:51000 > 10.0.0.9:443 [S]"),
                              raw |-> Some("IP 10.0.0.5.51000 > 10.0.0.9.443")])
             \/ \E level \in {"novice", "apprentice", "guardian", "raw"} :
                  TabClick(level)]_vars

\* ------------------------------------------------------------------ claims

\* The step is a start() of the TcpdumpMonitor that returned before its first
\* suspension: no coroutine moved and the last result is a new start() result.
TMStartReturnedAtOnce ==
  /\ pc' = pc
  /\ last' # last
  /\ last'.obj = "TcpdumpMonitor"
  /\ last'.op = "start"

\* The step is a NetworkMonitor.start() call.
NMStartReturned ==
  /\ last' # last
  /\ last'.obj = "NetworkMonitor"
  /\ last'.op = "start"

C2_MissingBinaryToolNotFound ==
  [][(TMStartReturnedAtOnce /\ ~running) =>
       /\ last'.res = "ToolNotFound"
       /\ ~running'
       /\ UNCHANGED <<process, procs>>]_vars

\* The step is a start() that returns because the permission was refused.
PermissionDeniedReturn ==
  \E t \in Callers :
    /\ pc[t] = "start_perm"
    /\ pc'[t] = "idle"
    /\ ~granted'

\* C3: a start() that fails for lack of permission hands its caller a value
\* different from the one handed out by the preceding start() that failed
\* for a missing binary: the two failures are distinguishable.
C3_FailureReasonsDistinguishable ==
  [][(/\ last.obj = "TcpdumpMonitor"
      /\ last.op = "start"
      /\ last.log = "not_found"
      /\ PermissionDeniedReturn) => last'.res # last.res]_vars

\* The step is the return of a stop() that found the runner running: either a
\* suspended stop() finishes, or the running flag is cleared by a stop() that
\* returns without ever suspending.
StopReturned ==
  \/ \E t \in Threads : pc[t] \in StopPcs /\ pc'[t] = Returned(t)
  \/ /\ running
     /\ ~running'
     /\ \A t \in Threads : pc'[t] \in StopPcs => pc[t] \in StopPcs

\* C4: whenever a stop() of a running runner returns, errors and timeouts of
\* terminate and wait included, the runner is not running and the
\* 'packet_capture' permission has been released.
C4_StopAlwaysReleases ==
  [][StopReturned => (~running' /\ ~granted')]_vars

\* No start() and no stop() is in progress.
Quiescent ==
  /\ \A t \in Callers : pc[t] = "idle"
  /\ \A r \in Readers : pc[r] \notin StopPcs

\* C5: the permission is held only while the runner is starting or running;
\* once no call is in progress and the runner is not running (a start() that
\* failed after the grant, a process that died), it is not held.
C5_GrantOnlyWhileStartingOrRunning ==
  (Quiescent /\ ~running) => ~granted

\* C6: at most one subprocess is alive, and every live subprocess is the one
\* the runner's handle refers to.
C6_OneLiveProcessReachable ==
  \A p \in Procs : Live(p) => process = p

\* C7: when a start() during whose suspension stop() was invoked returns and
\* no stop() is still in progress, the runner is not running and no
\* subprocess is alive.
C7_StopDuringStartWins ==
  [][\A t \in Callers :
       (/\ pc[t] \in StartPcs
        /\ call[t].stopDuring
        /\ pc'[t] = "idle"
        /\ \A u \in Threads : pc'[u] \notin StopPcs)
       => (~running' /\ \A p \in Procs : ~Live(p)')]_vars

\* C8: after MaxCycles consecutive start/stop cycles of a single caller, no
\* subprocess is running and the permission is not held.
C8_CyclesLeakNothing ==
  (cycles = MaxCycles /\ Quiescent) =>
    (~granted /\ \A p \in Procs : ~Live(p))

\* The step ends the wait of the stop() run by thread t: the wait returned or
\* timed out, and the try/finally around it is left.
StopWaitLeft(t) ==
  /\ pc[t] = "stop_wait"
  /\ pc'[t] # "stop_wait"

\* C9: stop() asks the subprocess to terminate before it waits, and kills
\* only if that subprocess has not exited when the wait ends; on both paths
\* the subprocess has then been terminated or killed and the handle is clear.
C9_GracefulThenKill ==
  [][\A t \in Threads :
       /\ (pc[t] # "stop_wait" /\ pc'[t] = "stop_wait") =>
            (call'[t].target # 0 /\ procs'[call'[t].target] # "alive")
       /\ StopWaitLeft(t) =>
            /\ process' = 0
            /\ procs'[call[t].target] # "alive"
            /\ (procs' # procs => procs[call[t].target] = "terminating")]_vars

\* C9 witness: a stop() has left its wait with the handle cleared and no
\* subprocess alive, and is about to release the permission.
C9_Witness ==
  \E t \in Callers :
    /\ pc[t] = "stop_release"
    /\ process = 0
    /\ ~running
    /\ \A p \in Procs : procs[p] = "gone"
    /\ granted

\* C10: when the reader observes the end of the output of the subprocess the
\* running runner refers to, the runner leaves the running state; it never
\* stays running with no live subprocess.
C10_ExitLeavesRunning ==
  [][\A r \in Readers :
       (/\ pc[r] = "read"
        /\ pc'[r] = "absent"
        /\ running
        /\ process = rproc[r]
        /\ procs[rproc[r]] = "gone") => ~running']_vars

\* The step invokes callback k with line l.
CallbackStarts(k, l) ==
  \E c \in Consumers :
    /\ cpc'[c] = "cb"
    /\ ccb'[c] = k
    /\ cline'[c] = l
    /\ (cpc[c] # "cb" \/ ccb[c] # k \/ cline[c] # l)

\* C11: each callback is invoked with the lines in the order they were read:
\* no callback is invoked with a line read before one it was already
\* invoked with.
C11_CallbacksInReadOrder ==
  [][\A k \in Callbacks, l \in Lines :
       CallbackStarts(k, l) => l > maxStarted[k]]_vars

\* A task is active once it has run and until it ends.
ActiveReaders == {r \in Readers : pc[r] \notin {"absent", "new"}}

ActiveConsumers == {c \in Consumers : cpc[c] \in {"get", "cb"}}

\* C12: at most one reader task and at most one processing task are active,
\* also after the runner has been stopped and started again.
C12_OneReaderOneConsumer ==
  /\ Cardinality(ActiveReaders) <= 1
  /\ Cardinality(ActiveConsumers) <= 1

C14_ParsingNeverRaises ==
  /\ event # NoEvent =>
       /\ "exception" \notin DOMAIN event
       /\ event.raw_output = raw
  /\ nmEvent # NoEvent => "exception" \notin DOMAIN nmEvent

\* The event carries an explicit parse-degraded flag: a field besides the
\* fields of PacketData that is set.
ParseDegradedFlag(packet) ==
  LET PacketDataFields ==
        {"timestamp", "raw_output", "protocol", "src_ip", "dst_ip",
         "src_port", "dst_port", "length", "flags", "metadata", "threats",
         "context"}
  IN \E f \in DOMAIN packet \ PacketDataFields : packet[f] = TRUE

\* C15: the event of a line that cannot be parsed has the protocol UNKNOWN and
\* carries the parse-degraded flag, and the event of a line that can be
\* parsed does not carry the flag.
C15_DegradedEventsFlagged ==
  HasEvent =>
    IF raw \in WellFormed
    THEN ~ParseDegradedFlag(event)
    ELSE event.protocol = Text.UNKNOWN /\ ParseDegradedFlag(event)

\* C16: the event of the line
\* "2024-01-01 10:00:00.000000 TCP 10.0.0.5.443 > 10.0.0.9.51000: Flags [S]"
\* has protocol TCP, source port 443 and destination port 51000.
C16_SynLineParsed ==
  (HasEvent /\ raw = Line.Syn) =>
    /\ event.protocol = Text.TCP
    /\ event.src_port = Some(443)
    /\ event.dst_port = Some(51000)

\* C17: the event of a TCP line with the flag section "Flags [S]" has a flags
\* map with SYN set.
C17_SynFlagSet ==
  (HasEvent /\ event.protocol = Text.TCP /\ Contains(raw, Text.FlagsSyn)) =>
    /\ event.flags # None
    /\ event.flags[1].SYN

\* The text mentions a secure web connection, in either case of the letters.
MentionsSecure(text) == Contains(Lower(text), Text.SecureWeb)

\* C18 as stated: the novice rendering of an event mentions "secure web
\* connection" only when 443 is the source port of the event.
C18_SecureOnlyForSourcePort ==
  (HasEvent /\ tier = "novice" /\ MentionsSecure(expl)) =>
    event.src_port = Some(443)

\* C18 amended: the novice rendering of an event mentions "secure web
\* connection" exactly when 443 is the destination port of the event, and
\* the rendering of the line of C16 does not mention it.
C18_SecureIffDestinationPort ==
  (HasEvent /\ tier = "novice") =>
    /\ MentionsSecure(expl) <=> event.dst_port = Some(443)
    /\ raw = Line.Syn => ~MentionsSecure(expl)

\* C18 witness: the novice rendering of a line from port 51000 to port 443
\* mentions the secure web connection.
C18_Witness ==
  /\ HasEvent
  /\ raw = Line.ToHttps
  /\ event.src_port = Some(51000)
  /\ event.dst_port = Some(443)
  /\ tier = "novice"
  /\ MentionsSecure(expl)

\* C19: the timestamp of an event is not earlier than the timestamp of the
\* event the parser produced before it, whether the lines were well-formed
\* (stamped in non-decreasing order) or malformed (stamped by the parser).
C19_TimestampsNonDecreasing ==
  [][(HasEvent /\ event' # event) =>
       TsLeq(event.timestamp, event'.timestamp)]_vars

C21_RenderingTotal ==
  (HasEvent /\ tier # "none") =>
    /\ tier \in Tiers
    /\ DOMAIN expl # {"exception"}
    /\ tier \in {"raw", "sentinel"} => expl = event.raw_output

\* C21 witness: a degraded event, without ports, flags and addresses, has been
\* rendered at the apprentice tier.
C21_Witness ==
  /\ HasEvent
  /\ raw = Line.Garbage
  /\ event.src_port = None
  /\ event.flags = None
  /\ tier = "apprentice"
  /\ expl = Text.UNKNOWN \o Text.ConnectionFrom \o <<":">> \o Text.NoneStr
              \o Text.To \o <<":">> \o Text.NoneStr

\* C22: the complexity level of an analysis is the expertise level of the
\* profile when the caller asked for no tier, and the tier the caller asked
\* for when it asked for one.
C22_RequestedTierWins ==
  analysisResult # None =>
    LET result == analysisResult[1] IN
      IF result.call.requested = None
      THEN result.complexityLevel = userProfile
      ELSE result.complexityLevel = result.call.requested[1]

\* C23: the context window never holds more than MAX_CONTEXT_EVENTS events,
\* and an event that MAX_CONTEXT_EVENTS or more events were inserted after
\* is neither in the window nor among the related events of a result.
C23_WindowBounded ==
  /\ Len(contextWindow) <= MAX_CONTEXT_EVENTS
  /\ \A i \in DOMAIN contextWindow :
       contextWindow[i].id > analysed - MAX_CONTEXT_EVENTS
  /\ analysisResult # None =>
       \A i \in DOMAIN analysisResult[1].relatedEvents :
         analysisResult[1].relatedEvents[i].id > analysed - MAX_CONTEXT_EVENTS

\* C23 witness: one event more than the window holds has been analysed, the
\* window is full and starts with the second event.
C23_Witness ==
  /\ analysed = MAX_CONTEXT_EVENTS + 1
  /\ Len(contextWindow) = MAX_CONTEXT_EVENTS
  /\ contextWindow[1].id = 2
  /\ analysisResult # None
  /\ analysisResult[1].rawEvent.id = MAX_CONTEXT_EVENTS + 1

\* C24: after k events the window holds the last min(k, MAX_CONTEXT_EVENTS)
\* of them, in the order they were inserted.
C24_WindowIsLastEvents ==
  LET kept == IF analysed < MAX_CONTEXT_EVENTS THEN analysed
              ELSE MAX_CONTEXT_EVENTS
  IN /\ Len(contextWindow) = kept
     /\ \A i \in 1 .. kept : contextWindow[i].id = analysed - kept + i

\* C24 witness: two events have been shifted out of a full window, the
\* oldest ones.
C24_Witness ==
  /\ analysed = MAX_CONTEXT_EVENTS + 2
  /\ Len(contextWindow) = MAX_CONTEXT_EVENTS
  /\ contextWindow[1].id = 3
  /\ contextWindow[MAX_CONTEXT_EVENTS].id = MAX_CONTEXT_EVENTS + 2

\* C25: the related events of a result are the other events of the context
\* window that share the protocol (one of the three shared attributes) with
\* the event analysed, the most recent first.
C25_RelatedEventsReturned ==
  (analysisResult # None /\ analysisResult[1].rawEvent.id = analysed) =>
    LET result == analysisResult[1]
        sharing ==
          SelectSeq(contextWindow,
                    LAMBDA other :
                      /\ other.id # result.rawEvent.id
                      /\ other.metadata.protocol
                           = result.rawEvent.metadata.protocol)
    IN result.relatedEvents =
         [i \in 1 .. Len(sharing) |-> sharing[Len(sharing) + 1 - i]]

\* C26: every finding is delivered to both streams: the two streams hold the
\* same number of entries, and the entries at the same position were made
\* for the same finding.
C26_BothStreamsGetEveryFinding ==
  /\ Len(crisisStream) = Len(knowledgeStream)
  /\ \A i \in DOMAIN crisisStream :
       crisisStream[i].finding = knowledgeStream[i].finding

\* C26 witness: a scan start and a streamed result have been delivered, each
\* to both streams.
C26_Witness ==
  /\ findings = 2
  /\ Len(crisisStream) = 2
  /\ Len(knowledgeStream) = 2
  /\ crisisStream[1].content = "Starting: Check active connections"
  /\ knowledgeStream[1].content =
       "Executing netstat -tunapl to Lists all active network connections and their processes"
  /\ crisisStream[2].content = "Port 4444 is listening"
  /\ knowledgeStream[2].content = "A listening port accepts connections"

\* C27: within each stream the entries are in production order: an entry
\* made for an earlier finding is before every entry made for a later one.
C27_StreamsInProductionOrder ==
  /\ \A i, j \in DOMAIN crisisStream :
       i < j => crisisStream[i].finding < crisisStream[j].finding
  /\ \A i, j \in DOMAIN knowledgeStream :
       i < j => knowledgeStream[i].finding < knowledgeStream[j].finding

\* C27 witness: two scans have run, the second after a chunk of the first.
C27_Witness ==
  /\ findings = 3
  /\ Len(crisisStream) = 3
  /\ crisisStream[1].content = "Starting: " \o Scans.ports.friendly
  /\ crisisStream[2].content = "Port 4444 is listening"
  /\ crisisStream[3].content = "Starting: " \o Scans.network.friendly
  /\ Len(knowledgeStream) = 3
  /\ knowledgeStream[3].content =
       "Executing tcpdump -i any -n to Captures and analyzes network traffic in real-time"

\* C28: every buffer is bounded: no stream ever holds more than
\* StreamCapacity entries (a full one drops its oldest entry and counts it).
C28_StreamsBounded ==
  /\ Len(crisisStream) <= StreamCapacity
  /\ Len(knowledgeStream) <= StreamCapacity

\* C29: a stream that is full drops an entry when it receives one: the
\* knowledge stream its oldest, the crisis stream one whose severity is
\* below the threshold.
C29_OverflowDropsByPolicy ==
  [][/\ (Len(knowledgeStream) >= StreamCapacity
           /\ knowledgeStream' # knowledgeStream) =>
          /\ Len(knowledgeStream') = Len(knowledgeStream)
          /\ Tail(knowledgeStream)
               = SubSeq(knowledgeStream', 1, Len(knowledgeStream) - 1)
     /\ (Len(crisisStream) >= StreamCapacity
           /\ crisisStream' # crisisStream) =>
          \E i \in DOMAIN crisisStream :
            /\ "severity" \in DOMAIN crisisStream[i]
            /\ crisisStream[i].severity \in {"info", "low", "medium"}
            /\ \A j \in DOMAIN crisisStream' :
                 crisisStream'[j].finding # crisisStream[i].finding]_vars

\* C30 (as claimed): the capture command is an argument vector whose first
\* element is the wrapper or the tcpdump path; the interface and the packet
\* filter each are exactly one element of it, whatever the strings, and every
\* other element is a fixed one.
C30_InterfaceAndFilterOneElementEach ==
  (cmdArgs # None /\ cmdArgs[1].tcpdump_path # None) =>
    LET args == cmdArgs[1]
        k == IF args.wrapper = None THEN 1 ELSE 2
    IN /\ Len(cmd) = k + 7
       /\ cmd[k] = args.tcpdump_path[1]
       /\ args.wrapper # None => cmd[1] = args.wrapper[1]
       /\ cmd[k + 2] = args.interface
       /\ cmd[k + 7] = args.packet_filter
       /\ \A i \in (k + 1 .. k + 6) \ {k + 2} :
            cmd[i] \in {"-i", "-tttt", "-l", "-n", "-vv"}

\* C30 (amended): the capture command is an argument vector whose first
\* element is the wrapper or the tcpdump path; the interface is exactly one
\* element of it, the one after "-i", whatever the string; a packet filter
\* that is not empty is exactly one element, the last, after "-vv", and an
\* empty one is no element at all; every other element is a fixed one.
C30_InterfaceOneElementFilterAtMostOne ==
  (cmdArgs # None /\ cmdArgs[1].tcpdump_path # None) =>
    LET args == cmdArgs[1]
        k == IF args.wrapper = None THEN 1 ELSE 2
    IN /\ Len(cmd) = IF args.packet_filter = "" THEN k + 5 ELSE k + 7
       /\ cmd[k] = args.tcpdump_path[1]
       /\ args.wrapper # None => cmd[1] = args.wrapper[1]
       /\ cmd[k + 2] = args.interface
       /\ args.packet_filter # "" => cmd[k + 7] = args.packet_filter
       /\ \A i \in DOMAIN cmd \ {1, k, k + 2, k + 7} :
            cmd[i] \in {"-i", "-tttt", "-l", "-n", "-vv"}

\* C30 witness: an interface and a filter that a shell would read as two
\* commands each are one element each of the command run under the wrapper.
C30_Witness ==
  /\ cmdArgs # None
  /\ cmdArgs[1].interface = "eth0; rm -rf /"
  /\ cmdArgs[1].packet_filter = "port 80; rm -rf /"
  /\ cmd = <<"sudo", "/usr/sbin/tcpdump", "-i", "eth0; rm -rf /", "-tttt",
             "-l", "-n", "-vv", "port 80; rm -rf /">>

\* C36: whenever the running flag of the monitor is set, its process handle
\* is set and names a subprocess that has not exited.
C36_RunningHasLiveProcess ==
  running => (process # 0 /\ procs[process] # "gone")

\* C35: while the monitor is stopped, from the return of a stop() to the
\* next call of start(), no callback is invoked with any line.
C35_NoCallbackWhileStopped ==
  [][(/\ last.obj = "TcpdumpMonitor"
      /\ last.op = "stop"
      /\ pc[PipeCaller] = "idle") =>
       \A k \in Callbacks, l \in Lines : ~CallbackStarts(k, l)]_vars

\* C33: when executeScans has returned for the plan of the template with all
\* three boxes checked, every checked box gave the key of a scan and the
\* three scans registered were executed.
C33_TemplateScansExecuted ==
  (scanPc = "done" /\ checkedBoxes = ScanPlanTemplate) =>
    /\ \A i \in DOMAIN checkedBoxes : checkedBoxes[i].scan \in DOMAIN Scans
    /\ [i \in DOMAIN started |-> started[i].scan]
         = <<"ports", "network", "connections">>

\* C34: the scans started are the first of the selected scans that are
\* registered, in selection order; all but the last started have ended or
\* failed; executeScans never rejects, and when it has returned every one of
\* them was started, whichever failed.
C34_ScansSequentialAndIsolated ==
  LET selected ==
        SelectSeq([i \in DOMAIN checkedBoxes |-> checkedBoxes[i].scan],
                  LAMBDA scanId : scanId \in DOMAIN Scans)
  IN /\ scanPc # "rejected"
     /\ Len(started) <= Len(selected)
     /\ \A i \in DOMAIN started :
          /\ started[i].scan = selected[i]
          /\ i < Len(started) => started[i].outcome \in {"ended", "failed"}
     /\ (started # <<>> /\ started[Len(started)].outcome = "running")
          <=> scanPc \in {"fetch", "read"}
     /\ scanPc = "done" => Len(started) = Len(selected)

\* C34 witness: executeScans has returned after three scans, of which the
\* first two failed.
C34_Witness ==
  /\ scanPc = "done"
  /\ started = <<[scan |-> "ports", outcome |-> "failed"],
                 [scan |-> "network", outcome |-> "failed"],
                 [scan |-> "connections", outcome |-> "ended"]>>
  /\ chunksRead = 1
  /\ Len(crisisStream) = 4

\* C31: the countdown changes by steps of minus one only, the scans start
\* only in a step that brings it to 0, and while the user has asked for a
\* pause (Modify Plan click, key press) and nothing has resumed the
\* countdown, it does not change and the scans do not start.
C31_ReviewWindowWithPause ==
  [][/\ countdownTime' # countdownTime => countdownTime' = countdownTime - 1
     /\ executions' # executions => countdownTime' = 0
     /\ (pauseAsked /\ pauseAsked') =>
          (countdownTime' = countdownTime /\ executions' = executions)]_vars

\* C32: executeScans is called at most once, at most one interval timer is
\* live, and the countdown never is below 0.
C32_ScansStartAtMostOnce ==
  /\ executions <= 1
  /\ Cardinality(intervals) <= 1
  /\ countdownTime >= 0

\* C37: whichever callbacks raised, every registered callback has been
\* invoked for every packet in registration order, packet after packet, and
\* the processing task is waiting for the callback due or for the next
\* packet.
C37_CallbackFailuresIsolated ==
  /\ \A i \in DOMAIN notifyLog :
       /\ notifyLog[i].packet = ((i - 1) \div NumCallbacks) + 1
       /\ notifyLog[i].callback = ((i - 1) % NumCallbacks) + 1
  /\ Len(notifyLog) =
       IF notifyIndex = 0 THEN notifyPacket * NumCallbacks
       ELSE (notifyPacket - 1) * NumCallbacks + notifyIndex - 1

\* C37 witness: the first callback raised for the first packet; the callbacks
\* after it were invoked for that packet, and all of them for the next.
C37_Witness ==
  /\ notifyPacket = 2
  /\ notifyIndex = 0
  /\ notifyLog[1] = [packet |-> 1, callback |-> 1, raised |-> TRUE]
  /\ Len(notifyLog) = 2 * NumCallbacks
  /\ ~notifyLog[2 * NumCallbacks].raised

C39_TextDependsOnPacketAndLevel ==
  \A i \in DOMAIN packetDisplay :
    LET data == packetDisplay[i].data
        key == currentLevel \o "_explanation"
        explanation == IF key \in DOMAIN data THEN data[key] ELSE None
    IN packetDisplay[i].textContent =
         IF explanation # None /\ explanation[1] # ""
         THEN explanation[1] ELSE data.raw[1]

====
